---- MODULE Spec2Model ----
(***************************************************************************)
(* Scheduled delivery of time capsules: capsule creation and scheduling    *)
(* (capsules/serializers.py), the delivery task (capsules/tasks.py), the   *)
(* public token gate and the owner endpoints (capsules/views.py) over the  *)
(* rows declared in capsules/models.py.                                    *)
(*                                                                         *)
(* Time is counted in clock ticks.  One tick is coarser than the 10 s      *)
(* countdown and the 120 s retry delay, so a countdown job is runnable     *)
(* from the tick it was submitted in; the delays are kept as the           *)
(* parameters handed to the job backbone.                                  *)
(***************************************************************************)
EXTENDS Integers, Sequences, FiniteSets, Bags, TLC

(* ------------------------------ bounds -------------------------------- *)
MaxCapsules == 1
MaxNow == 2
MaxDate == 1
MaxRedeliveries == 2
MaxTokenBodies == 3
MaxResolutions == 2
MaxStoreCapsules == 2
MaxRecipients == 3
MaxFiles == 2

(* ------------------------- program constants -------------------------- *)
TicksPerDay == 2
TZOffset == 1
max_retries == 3
default_retry_delay == 2 * 60
PastEtaCountdown == 10

(* ------------------------------ values -------------------------------- *)
Users == {"alice", "bob"}
Emails == {"r1@x"}
Dates == 0..MaxDate
Times == 0..(TicksPerDay - 1)
NoTime == -1
NoInstant == -1
NoToken == 0
NoCapsule == 0

PENDING == "pending"
SENT == "sent"
FAILED == "failed"
OPENED == "opened"

SUCCESS == "success"
FAILURE == "failure"

CAPSULE_CREATED == "capsule_created"
DELIVERY_SUCCESS == "delivery_success"
DELIVERY_FAIL == "delivery_fail"
CAPSULE_OPENED == "capsule_opened"
SYSTEM_ALERT == "system_alert"

TEXT == "text"
IMAGE == "image"
DOCUMENT == "document"

\* uploaded files: a name with its extension
Files == { [name |-> "photo", ext |-> ".jpg"], [name |-> "notes", ext |-> ".xyz"] }
NoFile == [name |-> "", ext |-> ""]
ImageExtensions == {".jpg", ".jpeg", ".png", ".gif", ".webp", ".bmp", ".tiff"}

SentOkMessage == "Email sent successfully."
SendErrorMessage == "Error sending email: connection refused"
GenericFailureMessage == "Email sending failed via Celery task."

\* what send_capsule_link_email can return: (success, message)
SenderResults == { <<TRUE, SentOkMessage>>, <<FALSE, SendErrorMessage>> }

\* where a store write of the task can raise; "none" is the reliable store
StoreFaults == {"none", "capsule_save", "recipient_save", "log_create", "notif_create"}

(* ----------------------------- tokens --------------------------------- *)
\* A 128-bit value is (body, fixed bits): value 2b is body b with the
\* version/variant bits of a version-4 UUID, value 2b-1 is body b with others.
\* The store issues bodies 1..MaxTokenBodies; one more body is never issued.
TokenValues == 1..(2 * (MaxTokenBodies + 1))
\* the values a caller presents when at most n bodies are issued: both forms
\* of those bodies and of one body more
Presentable(n) == 1..(2 * (n + 1))
TokenBody(v) == (v + 1) \div 2
\* uuid.UUID(s, version=4) overwrites the version and variant bits
AsVersion4(v) == 2 * TokenBody(v)
\* uuid.uuid4()
Uuid4Values == { 2 * b : b \in 1..MaxTokenBodies }
\* a generator that returns a value again and a column that accepts it
FreshTokens_Reissues(issued) ==
    { v \in Uuid4Values : \A w \in Uuid4Values : v <= w }

\* what the next call of uuid.uuid4() can return: a value it has not returned
\* before.  The values are interchangeable, so the least unused one stands
\* for any of them.
FreshTokens(issued) ==
    LET unused == Uuid4Values \ issued
    IN { v \in unused : \A w \in unused : v <= w }

(* ------------------------------ time ---------------------------------- *)
\* datetime.datetime.combine(date, time)
Combine(d, t) == d * TicksPerDay + t
\* the naive datetime taken as UTC
MakeAware_NaiveAsUtc(naive) == naive

\* timezone.make_aware(naive, default timezone) as a UTC instant
MakeAware(naive) == naive + TZOffset
DeliveryInstant(d, t) == MakeAware(Combine(d, t))

VARIABLES
    now,            \* timezone.now()
    DEBUG,          \* settings.DEBUG
    capsules,       \* Capsule rows, by primary key
    recipients,     \* CapsuleRecipient rows, by primary key
    contents,       \* CapsuleContent rows, by primary key
    deliveryLogs,   \* DeliveryLog rows, a bag (equal rows are counted)
    notifications,  \* Notification rows, a bag
    jobs,           \* messages submitted to the job backbone, in submission order
    outbox,         \* every call of send_capsule_link_email, a bag
    nextCapsuleId,  \* primary-key sequences
    nextRecipientId,
    nextContentId,
    issuedTokens,   \* every value uuid.uuid4() has returned so far
    blobs,          \* the file storage: the content rows (by primary key) whose
                    \* uploaded file it holds
    inflight,       \* requests to the token gate that have read the recipient
                    \* and not yet written, by request
    running,        \* executions of the delivery task that have passed the
                    \* guard and not yet called the sender, by worker
    users,          \* User rows (accounts), by email
    acct,           \* the account operation just executed, and for each email
                    \* where its stored OTP comes from and whether an OTP of
                    \* a password-reset request has been verified since
    last,           \* the operation just executed and what it returned
    visits          \* the current run of consecutive successful resolutions

vars == << now, DEBUG, capsules, recipients, contents, deliveryLogs, notifications,
           jobs, outbox, nextCapsuleId, nextRecipientId, nextContentId, issuedTokens,
           blobs, inflight, running, users, acct, last, visits >>

\* op: the operation; capsule, recipient, job: the rows it was about (0: none);
\* result: what it returned (a task: "returned" or "retry_requested" when it
\* raised self.retry); detail: the branch taken; token: the 128-bit value a
\* resolution was asked for
NoOp == [op |-> "none", capsule |-> NoCapsule, recipient |-> 0, job |-> 0,
         token |-> NoToken, result |-> "none", detail |-> "none"]

\* recipient: whose token; n: resolutions in the run; first, due: the status
\* and whether the delivery instant had come at the first one; transitions,
\* notifs: status changes and notifications in the run; openedAt: the
\* resolution that changed the status (0: none)
NoVisits == [recipient |-> 0, n |-> 0, first |-> "none", due |-> FALSE,
             transitions |-> 0, notifs |-> 0, openedAt |-> 0]

\* accounts: the emails that register or sign in, the passwords and the
\* 6-digit codes they use
AccountEmails == {"a@x", "b@x"}
Passwords == {"pw-one", "pw-two"}
Codes == {"111111", "222222"}
NoCode == "none"
UnusablePassword == "!"

\* op, email, code, result: the account operation, what it was given and what
\* it answered; origin: for each email, the operation that issued the stored
\* OTP; verified: whether an OTP issued by a password-reset request for the
\* email has been verified since that request and no password was set since
NoAcct == [op |-> "none", email |-> "none", code |-> NoCode, result |-> "none",
           origin |-> [e \in AccountEmails |-> "none"],
           verified |-> [e \in AccountEmails |-> FALSE]]

Init ==
    /\ now = 0
    /\ DEBUG \in BOOLEAN
    /\ capsules = << >>
    /\ recipients = << >>
    /\ contents = << >>
    /\ deliveryLogs = EmptyBag
    /\ notifications = EmptyBag
    /\ jobs = << >>
    /\ outbox = EmptyBag
    /\ nextCapsuleId = 1
    /\ nextRecipientId = 1
    /\ nextContentId = 1
    /\ issuedTokens = {}
    /\ blobs = {}
    /\ inflight = << >>
    /\ running = << >>
    /\ users = << >>
    /\ acct = NoAcct
    /\ last = NoOp
    /\ visits = NoVisits

(* --------------------------- row helpers ------------------------------ *)
\* a function extended (or overwritten) at one key
Put(f, k, v) == [x \in (DOMAIN f) \cup {k} |-> IF x = k THEN v ELSE f[x]]
\* a function restricted to the keys in S
Restrict(f, S) == [x \in S |-> f[x]]

\* Notification.objects.create(user=, capsule=, notification_type=)
NewNotification(user, capsule, type) ==
    [user |-> user, capsule |-> capsule, notification_type |-> type, is_read |-> FALSE,
     read_at |-> NoInstant]

\* one more row in a table
Insert(table, row) == table (+) SetToBag({row})

\* the number of rows of a table that are in the set S
CountIn(table, S) ==
    BagCardinality([ x \in (DOMAIN table) \cap S |-> table[x] ])

\* Notification.objects.create inside try/except: a failed write is swallowed
TryNotify(ns, user, capsule, type, writeOk) ==
    IF writeOk THEN Insert(ns, NewNotification(user, capsule, type)) ELSE ns

CountNotifications(ns, user, capsule, type) ==
    CountIn(ns, { x \in DOMAIN ns : /\ x.user = user
                                     /\ x.capsule = capsule
                                     /\ x.notification_type = type })

CountLogs(ls, capsule, email, status) ==
    CountIn(ls, { x \in DOMAIN ls : /\ x.capsule = capsule
                                     /\ x.recipient_email = email
                                     /\ x.status = status })

(* ------------------------------ clock --------------------------------- *)
Tick ==
    /\ now < MaxNow
    /\ now' = now + 1
    /\ last' = [NoOp EXCEPT !.op = "tick"]
    /\ UNCHANGED << DEBUG, capsules, recipients, contents, deliveryLogs, notifications,
                    jobs, outbox, nextCapsuleId, nextRecipientId, nextContentId,
                    issuedTokens, blobs, inflight, running, users, acct, visits >>

(* ------------------- capsule creation and scheduling ------------------- *)
\* a combination that raises taken as if it had succeeded
ComputeEta_IgnoresFailure(d, t, combineOk) ==
    IF t # NoTime THEN DeliveryInstant(d, t) ELSE NoInstant

\* CapsuleSerializer.create, the try block: the ETA of the delivery, or
\* NoInstant when delivery_time is absent from the validated data or the
\* combination raises
ComputeEta(d, t, combineOk) ==
    IF t # NoTime /\ combineOk THEN DeliveryInstant(d, t) ELSE NoInstant

\* an ETA equal to now scheduled at the ETA instead of with the countdown
ScheduleDelivery_EtaAtNow(eta, current, capsule_id, recipient_id) ==
    IF eta # NoInstant
    THEN IF eta >= current
         THEN << [capsule_id |-> capsule_id, recipient_id |-> recipient_id,
                  eta |-> eta, countdown |-> NoInstant,
                  retries |-> 0, state |-> "queued", redeliveries |-> 0] >>
         ELSE << [capsule_id |-> capsule_id, recipient_id |-> recipient_id,
                  eta |-> NoInstant, countdown |-> PastEtaCountdown,
                  retries |-> 0, state |-> "queued", redeliveries |-> 0] >>
    ELSE << >>

\* CapsuleSerializer.create, the scheduling block: the apply_async calls made
ScheduleDelivery(eta, current, capsule_id, recipient_id) ==
    IF eta # NoInstant
    THEN IF eta > current
         THEN << [capsule_id |-> capsule_id, recipient_id |-> recipient_id,
                  eta |-> eta, countdown |-> NoInstant,
                  retries |-> 0, state |-> "queued", redeliveries |-> 0] >>
         ELSE << [capsule_id |-> capsule_id, recipient_id |-> recipient_id,
                  eta |-> NoInstant, countdown |-> PastEtaCountdown,
                  retries |-> 0, state |-> "queued", redeliveries |-> 0] >>
    ELSE << >>

\* a capsule created unlocked
NewCapsule_Unlocked(owner, d, t) ==
    [owner |-> owner, delivery_date |-> d,
     delivery_time |-> IF t = NoTime THEN 0 ELSE t,
     is_delivered |-> FALSE, is_archived |-> FALSE, is_unlocked |-> TRUE]

\* Capsule.objects.create(owner=owner, **validated_data)
NewCapsule(owner, d, t) ==
    [owner |-> owner, delivery_date |-> d,
     delivery_time |-> IF t = NoTime THEN 0 ELSE t,
     is_delivered |-> FALSE, is_archived |-> FALSE, is_unlocked |-> FALSE]

\* CapsuleRecipient.objects.create(capsule=, recipient_email=)
NewRecipient(capsule_id, email, token) ==
    [capsule |-> capsule_id, recipient_email |-> email, received_status |-> PENDING,
     sent_date |-> NoInstant, access_token |-> token]

\* CapsuleSerializer.get_file_content_type: by extension, document otherwise
\* (the video, audio and document extensions are not among Files)
get_file_content_type(file) ==
    IF file.ext \in ImageExtensions THEN IMAGE ELSE DOCUMENT

\* the files numbered from 1 whether or not there is a text
FileOrderStart_AlwaysOne(text) ==
    1

\* file_order_start
FileOrderStart(text) == IF text # "" THEN 1 ELSE 0

\* a text row created for a blank text too
NewContents_KeepsBlankText(capsule_id, text, files) ==
    LET textRows == << [capsule |-> capsule_id, content_type |-> TEXT,
                        text_content |-> text, file |-> NoFile, order |-> 0] >>
        fileRows == [ i \in 1..Len(files) |->
                        [capsule |-> capsule_id,
                         content_type |-> get_file_content_type(files[i]),
                         text_content |-> "", file |-> files[i],
                         order |-> FileOrderStart(text) + (i - 1)] ]
    IN textRows \o fileRows

\* the CapsuleContent rows of one request, in the sequence they are created:
\* the text (if not blank) with order 0, then the files, the one at index
\* i-1 of the upload with order file_order_start + (i-1)
NewContents(capsule_id, text, files) ==
    LET textRows == IF text # ""
                    THEN << [capsule |-> capsule_id, content_type |-> TEXT,
                             text_content |-> text, file |-> NoFile, order |-> 0] >>
                    ELSE << >>
        fileRows == [ i \in 1..Len(files) |->
                        [capsule |-> capsule_id,
                         content_type |-> get_file_content_type(files[i]),
                         text_content |-> "", file |-> files[i],
                         order |-> FileOrderStart(text) + (i - 1)] ]
    IN textRows \o fileRows

\* CreateCapsuleView.post with valid data: serializer.save(), then the owner's
\* notification
CreateCapsule(owner, email, d, t, text, files, combineOk, notifOk) ==
    /\ \E token \in FreshTokens(issuedTokens) :
         LET cid == nextCapsuleId
             rid == nextRecipientId
             eta == ComputeEta(d, t, combineOk)
             rows == NewContents(cid, text, files)
             submitted == ScheduleDelivery(eta, now, cid, rid)
         IN /\ capsules' = Put(capsules, cid, NewCapsule(owner, d, t))
            /\ contents' = [ k \in (DOMAIN contents) \cup
                                   { nextContentId + i - 1 : i \in 1..Len(rows) } |->
                               IF k \in DOMAIN contents THEN contents[k]
                               ELSE rows[k - nextContentId + 1] ]
            /\ nextContentId' = nextContentId + Len(rows)
            /\ blobs' = blobs \cup { nextContentId + i - 1 : i \in { x \in 1..Len(rows) : rows[x].file # NoFile } }
            /\ recipients' = Put(recipients, rid, NewRecipient(cid, email, token))
            /\ issuedTokens' = issuedTokens \cup {token}
            /\ jobs' = jobs \o submitted
            /\ notifications' = TryNotify(notifications, owner, cid, CAPSULE_CREATED, notifOk)
            /\ nextCapsuleId' = cid + 1
            /\ nextRecipientId' = rid + 1
            /\ last' = [op |-> "create", capsule |-> cid, recipient |-> rid,
                        job |-> IF Len(submitted) > 0 THEN Len(jobs) + 1 ELSE 0,
                        token |-> NoToken,
                        result |-> "created",
                        detail |-> IF t = NoTime THEN "no_time"
                                   ELSE IF combineOk THEN "eta" ELSE "combine_failed"]
    /\ visits' = visits
    /\ UNCHANGED << now, DEBUG, deliveryLogs, outbox, inflight, running, users, acct >>

\* CreateCapsuleView.post when a write of CapsuleSerializer.create raises:
\* of the writes that follow Capsule.objects.create (the content rows in
\* their sequence, then the recipient) the one numbered failAt raises.  create
\* opens no transaction, so the rows written before stay; the exception
\* leaves serializer.save(), the scheduling block and the notification are not
\* reached and the request fails.
CreateCapsuleInterrupted(owner, email, d, t, text, files, failAt) ==
    LET cid == nextCapsuleId
        all == NewContents(cid, text, files)
        written == SubSeq(all, 1, failAt - 1)
    IN /\ failAt \in 1..(Len(all) + 1)
       /\ capsules' = Put(capsules, cid, NewCapsule(owner, d, t))
       /\ contents' = [ k \in (DOMAIN contents) \cup
                              { nextContentId + i - 1 : i \in 1..Len(written) } |->
                          IF k \in DOMAIN contents THEN contents[k]
                          ELSE written[k - nextContentId + 1] ]
       /\ nextContentId' = nextContentId + Len(written)
       /\ blobs' = blobs \cup { nextContentId + i - 1 :
                                  i \in { x \in 1..Len(written) : written[x].file # NoFile } }
       /\ nextCapsuleId' = cid + 1
       /\ last' = [NoOp EXCEPT !.op = "create", !.capsule = cid, !.result = "error",
                               !.detail = IF failAt <= Len(all) THEN "content_failed"
                                          ELSE "recipient_failed"]
       /\ visits' = visits
       /\ UNCHANGED << now, DEBUG, recipients, deliveryLogs, notifications, jobs, outbox,
                       nextRecipientId, issuedTokens, inflight, running, users, acct >>

(* ---------------------------- email sender ---------------------------- *)
\* getattr(settings, 'FRONTEND_BASE_URL', 'http://localhost:5173')
FRONTEND_BASE_URL == "http://localhost:5173"

\* a value as it is formatted into a string: a UUID as its 36-character
\* hexadecimal text, an integer primary key as its decimal digits
UuidText(v) == [form |-> "uuid", value |-> v]
DecimalText(n) == [form |-> "decimal", value |-> n]

\* utils.py:18-20, the link of the email, by path segment:
\* f"{frontend_base_url}/view-capsule/{access_token}/"
CapsuleLink(capsule_id, access_token) ==
    << FRONTEND_BASE_URL, "view-capsule", UuidText(access_token) >>

(* --------------------------- delivery task ----------------------------- *)
\* the guard left out
IdempotencyGuard_Absent(cap, rec) ==
    FALSE

\* tasks.py:40, the idempotency guard
IdempotencyGuard(cap, rec) ==
    cap.is_delivered /\ rec.received_status = SENT

\* tasks.py:64-69, the text of the first text content of the capsule
FirstTextContent(c) ==
    LET rows == { k \in DOMAIN contents : contents[k].capsule = c /\ contents[k].content_type = TEXT }
    IN IF rows = {} THEN ""
       ELSE LET k == CHOOSE x \in rows : \A y \in rows :
                        \/ contents[x].order < contents[y].order
                        \/ (contents[x].order = contents[y].order /\ x <= y)
            IN contents[k].text_content

\* only is_delivered written
MarkDelivered_OnlyDelivered(cap) ==
    [cap EXCEPT !.is_delivered = TRUE]

\* tasks.py:83-85, the capsule flags written after a successful send
MarkDelivered(cap) ==
    [cap EXCEPT !.is_delivered = TRUE, !.is_unlocked = TRUE]

\* sent_date not written
MarkSent_NoSentDate(rec, current) ==
    [rec EXCEPT !.received_status = SENT]

\* tasks.py:87-89, the recipient written after a successful send
MarkSent(rec, current) ==
    [rec EXCEPT !.received_status = SENT, !.sent_date = current]

\* tasks.py:115-116, the recipient written after a failed send
MarkFailed(rec) ==
    [rec EXCEPT !.received_status = FAILED]

\* tasks.py:91-97
\* a successful send logged as a failure
SuccessLog_StatusFailure(c, email, message) ==
    [capsule |-> c, recipient_email |-> email, status |-> FAILURE,
     error_message |-> "", details |-> message]

\* tasks.py:91-97
SuccessLog(c, email, message) ==
    [capsule |-> c, recipient_email |-> email, status |-> SUCCESS,
     error_message |-> "", details |-> message]

\* the sender's message dropped from the log
FailureLog_GenericDetails(c, email, message) ==
    [capsule |-> c, recipient_email |-> email, status |-> FAILURE,
     error_message |-> GenericFailureMessage, details |-> GenericFailureMessage]

\* tasks.py:128-135
FailureLog(c, email, message) ==
    [capsule |-> c, recipient_email |-> email, status |-> FAILURE,
     error_message |-> GenericFailureMessage, details |-> message]

\* one retry too many
RetryOrAbandon_OffByOne(job) ==
    IF job.retries <= max_retries
    THEN [job EXCEPT !.retries = job.retries + 1, !.eta = NoInstant,
                     !.countdown = default_retry_delay, !.state = "queued"]
    ELSE [job EXCEPT !.state = "abandoned"]

\* self.retry(exc=exc) under max_retries=3, default_retry_delay=120: the
\* message is resubmitted with a countdown, or the exception is re-raised
\* once the retries are used up and the job is abandoned
RetryOrAbandon(job) ==
    IF job.retries < max_retries
    THEN [job EXCEPT !.retries = job.retries + 1, !.eta = NoInstant,
                     !.countdown = default_retry_delay, !.state = "queued"]
    ELSE [job EXCEPT !.state = "abandoned"]

\* a message that stays on the queue after the task has returned
Completed_StaysQueued(job) == job

\* the task returned normally
Completed(job) == [job EXCEPT !.state = "done"]

\* a missing row handed to the generic handler, which asks for a retry
OnDoesNotExist_Retries(job) ==
    RetryOrAbandon(job)

\* tasks.py:140-147, except Capsule.DoesNotExist / CapsuleRecipient.DoesNotExist:
\* the task returns a message, no retry
OnDoesNotExist(job) ==
    Completed(job)

\* what the backbone saw of an execution that left the message in this state
Outcome(job) == IF job.state = "done" THEN "returned" ELSE "retry_requested"

\* deliver_capsule_email_task(capsule_id, recipient_id), one whole execution of
\* message j; res is what the email sender returns if it is called, fault is
\* the store write that raises in this execution (if it is reached)
\* a failed notification write raising as the other writes do
RaisesAfterSend_NotificationToo(fault) ==
    fault # "none"

\* the success path after the sender has returned: the writes that are not
\* inside a try/except of their own, so that their exception reaches the
\* handler of the task
RaisesAfterSend(fault) ==
    fault \in {"capsule_save", "recipient_save", "log_create"}

RunTask(j, res, fault, redelivered) ==
    LET job == IF redelivered
               THEN [jobs[j] EXCEPT !.redeliveries = jobs[j].redeliveries + 1]
               ELSE jobs[j]
        c == job.capsule_id
        r == job.recipient_id
        Report(result, detail) ==
            [op |-> "deliver", capsule |-> c, recipient |-> r, job |-> j,
             token |-> NoToken, result |-> result, detail |-> detail]
    IN
    /\ visits' = NoVisits
    /\ UNCHANGED << now, DEBUG, contents, nextCapsuleId, nextRecipientId, nextContentId,
                    blobs, inflight, running, users, acct >>
    /\ IF c \notin DOMAIN capsules
       THEN \* Capsule.DoesNotExist
            /\ jobs' = [jobs EXCEPT ![j] = OnDoesNotExist(job)]
            /\ last' = Report(Outcome(OnDoesNotExist(job)), "capsule_not_found")
            /\ UNCHANGED << capsules, recipients, deliveryLogs, notifications, outbox, issuedTokens >>
       ELSE IF ~(r \in DOMAIN recipients /\ recipients[r].capsule = c)
       THEN \* CapsuleRecipient.DoesNotExist
            /\ jobs' = [jobs EXCEPT ![j] = OnDoesNotExist(job)]
            /\ last' = Report(Outcome(OnDoesNotExist(job)), "recipient_not_found")
            /\ UNCHANGED << capsules, recipients, deliveryLogs, notifications, outbox, issuedTokens >>
       ELSE IF IdempotencyGuard(capsules[c], recipients[r])
       THEN /\ jobs' = [jobs EXCEPT ![j] = Completed(job)]
            /\ last' = Report("returned", "already_delivered")
            /\ UNCHANGED << capsules, recipients, deliveryLogs, notifications, outbox, issuedTokens >>
       ELSE \E fresh \in (IF recipients[r].access_token = NoToken
                          THEN FreshTokens(issuedTokens) ELSE {NoToken}) :
            LET ok == res[1]
                message == res[2]
                \* tasks.py:55-58
                rec0 == IF recipients[r].access_token = NoToken
                        THEN [recipients[r] EXCEPT !.access_token = fresh]
                        ELSE recipients[r]
                cap == capsules[c]
                email == rec0.recipient_email
                \* the writes that are reached before the one that raises
                capW == ok /\ fault # "capsule_save"
                recW == IF ok THEN fault \notin {"capsule_save", "recipient_save"}
                        ELSE fault # "recipient_save"
                logW == IF ok THEN fault \notin {"capsule_save", "recipient_save", "log_create"}
                        ELSE fault \notin {"recipient_save", "log_create"}
                notW == IF ok THEN fault = "none"
                        ELSE fault \notin {"recipient_save", "notif_create"}
                raised == IF ok THEN RaisesAfterSend(fault) ELSE TRUE
            IN /\ issuedTokens' = IF fresh = NoToken THEN issuedTokens
                                  ELSE issuedTokens \cup {fresh}
               /\ outbox' = Insert(outbox, [job |-> j, capsule_id |-> c,
                                            recipient_email |-> email,
                                            access_token |-> rec0.access_token,
                                            text_content |-> FirstTextContent(c),
                                            success |-> ok, message |-> message])
               /\ capsules' = IF capW THEN [capsules EXCEPT ![c] = MarkDelivered(cap)]
                              ELSE capsules
               /\ recipients' = [recipients EXCEPT ![r] =
                                    IF recW THEN (IF ok THEN MarkSent(rec0, now) ELSE MarkFailed(rec0))
                                    ELSE rec0]
               /\ deliveryLogs' = IF logW
                                  THEN Insert(deliveryLogs,
                                              IF ok THEN SuccessLog(c, email, message)
                                              ELSE FailureLog(c, email, message))
                                  ELSE deliveryLogs
               /\ notifications' = TryNotify(notifications, cap.owner, c,
                                              IF ok THEN DELIVERY_SUCCESS ELSE DELIVERY_FAIL,
                                              notW)
               /\ jobs' = [jobs EXCEPT ![j] = IF raised THEN RetryOrAbandon(job)
                                              ELSE Completed(job)]
               /\ last' = Report(IF raised THEN "retry_requested" ELSE "returned",
                                 IF ok THEN "sent" ELSE "send_failed")

\* the backbone runs a queued message once its time has come
ExecuteJob(j, res, fault) ==
    /\ j \in DOMAIN jobs
    /\ jobs[j].state = "queued"
    /\ jobs[j].eta = NoInstant \/ now >= jobs[j].eta
    /\ RunTask(j, res, fault, FALSE)

\* at-least-once execution: the backbone runs a message again after it has
\* already been executed
RedeliverJob(j, res, fault) ==
    /\ j \in DOMAIN jobs
    /\ jobs[j].state # "queued"
    /\ jobs[j].redeliveries < MaxRedeliveries
    /\ RunTask(j, res, fault, TRUE)

\* Two workers executing the same message at the same time.  The backbone
\* delivers at least once: a message that is not acknowledged within the
\* visibility timeout of the broker (a message waiting for a far ETA is held
\* unacknowledged) is handed to another worker while the first still holds it.
\* The task reads the two rows once (tasks.py:37-38), tests the guard on what
\* it has read and writes with save(update_fields=...) later; there is no
\* select_for_update, no transaction and no conditional update in between.
Workers == 1..2

\* the decision taken at send time read again from the store
SendsOn_CurrentRows(ex, cap, rec) ==
    ~IdempotencyGuard(cap, rec)

\* tasks.py:40-80: the execution goes on to the sender when the guard did not
\* hold on the rows it read at its start, whatever the rows hold by now
SendsOn(ex, cap, rec) ==
    ~IdempotencyGuard([is_delivered |-> ex.is_delivered],
                      [received_status |-> ex.received_status])

\* the task up to the guard (tasks.py:37-42) run by worker w for message j:
\* a missing row or a guard that holds ends the execution as in RunTask,
\* otherwise the execution holds what it has read
TaskBegin(w, j) ==
    /\ w \notin DOMAIN running
    /\ j \in DOMAIN jobs
    /\ jobs[j].state = "queued"
    /\ jobs[j].eta = NoInstant \/ now >= jobs[j].eta
    /\ LET c == jobs[j].capsule_id
           r == jobs[j].recipient_id
       IN IF /\ c \in DOMAIN capsules
             /\ r \in DOMAIN recipients /\ recipients[r].capsule = c
             /\ ~IdempotencyGuard(capsules[c], recipients[r])
          THEN /\ running' = Put(running, w,
                                  [job |-> j, capsule |-> c, recipient |-> r,
                                   retries |-> jobs[j].retries,
                                   owner |-> capsules[c].owner,
                                   recipient_email |-> recipients[r].recipient_email,
                                   access_token |-> recipients[r].access_token,
                                   is_delivered |-> capsules[c].is_delivered,
                                   received_status |-> recipients[r].received_status])
               /\ last' = [NoOp EXCEPT !.op = "task_read", !.capsule = c,
                                       !.recipient = r, !.job = j, !.result = "read"]
               /\ visits' = NoVisits
               /\ UNCHANGED << now, DEBUG, capsules, recipients, contents, deliveryLogs,
                               notifications, jobs, outbox, nextCapsuleId, nextRecipientId,
                               nextContentId, issuedTokens, blobs, inflight, users, acct >>
          ELSE RunTask(j, <<TRUE, SentOkMessage>>, "none", FALSE)

\* the lazy issue of the token (tasks.py:55-58) by the execution of worker w
\* that read a recipient without one: uuid4, then
\* save(update_fields=['access_token', 'token_generated_at']), which writes the
\* column whatever it holds by now.  A row deleted in the meantime makes the
\* save raise, which the generic handler turns into a retry.
TaskIssue(w) ==
    /\ w \in DOMAIN running
    /\ running[w].access_token = NoToken
    /\ LET ex == running[w]
           j == ex.job
           r == ex.recipient
       IN IF r \in DOMAIN recipients
          THEN \E fresh \in FreshTokens(issuedTokens) :
                 /\ issuedTokens' = issuedTokens \cup {fresh}
                 /\ recipients' = [recipients EXCEPT ![r].access_token = fresh]
                 /\ running' = [running EXCEPT ![w].access_token = fresh]
                 /\ jobs' = jobs
                 /\ last' = [NoOp EXCEPT !.op = "task_issue", !.capsule = ex.capsule,
                                         !.recipient = r, !.job = j, !.token = fresh,
                                         !.result = "issued"]
          ELSE /\ jobs' = IF ex.retries < max_retries
                          THEN [jobs EXCEPT ![j] = [jobs[j] EXCEPT !.retries = ex.retries + 1,
                                                                  !.eta = NoInstant,
                                                                  !.countdown = default_retry_delay,
                                                                  !.state = "queued"]]
                          ELSE [jobs EXCEPT ![j].state = "abandoned"]
               /\ running' = Restrict(running, (DOMAIN running) \ {w})
               /\ last' = [op |-> "deliver", capsule |-> ex.capsule, recipient |-> r,
                           job |-> j, token |-> NoToken, result |-> "retry_requested",
                           detail |-> "row_gone"]
               /\ UNCHANGED << recipients, issuedTokens >>
    /\ visits' = NoVisits
    /\ UNCHANGED << now, DEBUG, capsules, contents, deliveryLogs, notifications, outbox,
                    nextCapsuleId, nextRecipientId, nextContentId, blobs, inflight, users, acct >>

\* the rest of the execution of worker w (tasks.py:62-151), which holds a
\* token by now: the sender called with the token the execution holds, the
\* rows written with save(update_fields=...), the log and the notification
\* created.  res is what the sender returns.  A row deleted in the meantime
\* makes the save raise, which the generic handler turns into a retry.  The
\* retry is counted from the message the execution holds; a message
\* resubmitted twice for one failure count is kept once.
TaskFinish(w, res) ==
    /\ w \in DOMAIN running
    /\ running[w].access_token # NoToken
    /\ LET ex == running[w]
           j == ex.job
           c == ex.capsule
           r == ex.recipient
           ok == res[1]
           message == res[2]
           present == c \in DOMAIN capsules /\ r \in DOMAIN recipients
           Report(result, detail) ==
               [op |-> "deliver", capsule |-> c, recipient |-> r, job |-> j,
                token |-> NoToken, result |-> result, detail |-> detail]
           Call == [job |-> j, capsule_id |-> c,
                    recipient_email |-> ex.recipient_email,
                    access_token |-> ex.access_token,
                    text_content |-> FirstTextContent(c),
                    success |-> ok, message |-> message]
           Retried == IF ex.retries < max_retries
                      THEN [jobs EXCEPT ![j] = [jobs[j] EXCEPT !.retries = ex.retries + 1,
                                                              !.eta = NoInstant,
                                                              !.countdown = default_retry_delay,
                                                              !.state = "queued"]]
                      ELSE [jobs EXCEPT ![j].state = "abandoned"]
           Returned == IF jobs[j].retries = ex.retries
                       THEN [jobs EXCEPT ![j] = Completed(jobs[j])]
                       ELSE jobs
       IN IF ~present
          THEN \* the sender is called, the first save after it raises
               /\ outbox' = Insert(outbox, Call)
               /\ jobs' = Retried
               /\ last' = Report("retry_requested", IF ok THEN "sent" ELSE "send_failed")
               /\ UNCHANGED << capsules, recipients, deliveryLogs, notifications >>
          ELSE IF ~SendsOn(ex, capsules[c], recipients[r])
          THEN /\ jobs' = Returned
               /\ last' = Report("returned", "already_delivered")
               /\ UNCHANGED << capsules, recipients, deliveryLogs, notifications, outbox >>
          ELSE /\ outbox' = Insert(outbox, Call)
               /\ capsules' = IF ok THEN [capsules EXCEPT ![c] = MarkDelivered(capsules[c])]
                              ELSE capsules
               /\ recipients' = [recipients EXCEPT ![r] =
                                    IF ok THEN MarkSent(recipients[r], now)
                                    ELSE MarkFailed(recipients[r])]
               /\ deliveryLogs' = Insert(deliveryLogs,
                                         IF ok THEN SuccessLog(c, ex.recipient_email, message)
                                         ELSE FailureLog(c, ex.recipient_email, message))
               /\ notifications' = TryNotify(notifications, ex.owner, c,
                                             IF ok THEN DELIVERY_SUCCESS ELSE DELIVERY_FAIL,
                                             TRUE)
               /\ jobs' = IF ok THEN Returned ELSE Retried
               /\ last' = Report(IF ok THEN "returned" ELSE "retry_requested",
                                 IF ok THEN "sent" ELSE "send_failed")
    /\ running' = Restrict(running, (DOMAIN running) \ {w})
    /\ visits' = NoVisits
    /\ UNCHANGED << now, DEBUG, contents, nextCapsuleId, nextRecipientId, nextContentId,
                    issuedTokens, blobs, inflight, users, acct >>

(* ----------------------------- token gate ------------------------------ *)
\* views.py:176, the time lock
IsTimeLocked(cap, current) ==
    DeliveryInstant(cap.delivery_date, cap.delivery_time) > current /\ ~DEBUG

\* a gate without the unlock check
IsNotUnlocked_Unchecked(cap) ==
    FALSE

\* views.py:181, the unlock check
IsNotUnlocked(cap) ==
    ~cap.is_unlocked /\ ~DEBUG

\* a visit of an opened recipient counted as an opening again
OpensOnVisit_Reopens(rec, cap, current) ==
    \/ rec.received_status \in {SENT, OPENED}
    \/ /\ rec.received_status = PENDING
       /\ DeliveryInstant(cap.delivery_date, cap.delivery_time) <= current

\* every recipient that is not opened yet is opened, a failed one too
OpensOnVisit_AnyUnopened(rec, cap, current) ==
    rec.received_status # OPENED

\* views.py:188 and 207: does a successful resolution move the recipient to opened
OpensOnVisit(rec, cap, current) ==
    \/ rec.received_status = SENT
    \/ /\ rec.received_status = PENDING
       /\ DeliveryInstant(cap.delivery_date, cap.delivery_time) <= current

\* views.py:164, the recipients whose stored token equals the parsed one
RecipientsByToken(token) ==
    { r \in DOMAIN recipients : recipients[r].access_token = token }

\* the run of consecutive successful resolutions after one more of recipient r
NextVisits(r, before, due, opened, notified) ==
    LET v == IF visits.recipient = r THEN visits
             ELSE [NoVisits EXCEPT !.recipient = r, !.first = before, !.due = due]
    IN [v EXCEPT !.n = v.n + 1,
                 !.transitions = v.transitions + (IF opened THEN 1 ELSE 0),
                 !.notifs = v.notifs + (IF notified THEN 1 ELSE 0),
                 !.openedAt = IF opened /\ v.openedAt = 0 THEN v.n + 1 ELSE v.openedAt]

\* PublicCapsuleRetrieveView.get_object for a presented token: wellFormed says
\* whether the text parses as a UUID, value is the 128-bit value it denotes
ResolveToken(wellFormed, value, notifOk) ==
    LET NotFound(detail) ==
            /\ last' = [NoOp EXCEPT !.op = "resolve", !.result = "not_found",
                                    !.detail = detail,
                                    !.token = IF wellFormed THEN value ELSE NoToken]
            /\ UNCHANGED << recipients, notifications, visits >>
    IN
    /\ UNCHANGED << now, DEBUG, capsules, contents, deliveryLogs, jobs, outbox,
                    nextCapsuleId, nextRecipientId, nextContentId, issuedTokens,
                    blobs, inflight, running, users, acct >>
    /\ IF ~wellFormed
       THEN NotFound("malformed")
       ELSE IF RecipientsByToken(AsVersion4(value)) = {}
       THEN NotFound("unknown")
       ELSE LET r == CHOOSE x \in RecipientsByToken(AsVersion4(value)) : TRUE
                rec == recipients[r]
                c == rec.capsule
                cap == capsules[c]
            IN IF IsTimeLocked(cap, now)
               THEN NotFound("time_locked")
               ELSE IF IsNotUnlocked(cap)
               THEN NotFound("not_unlocked")
               ELSE LET opened == OpensOnVisit(rec, cap, now)
                    IN /\ visits.recipient = r => visits.n < MaxResolutions
                       /\ recipients' = IF opened
                                        THEN [recipients EXCEPT ![r].received_status = OPENED]
                                        ELSE recipients
                       /\ notifications' = IF opened
                                           THEN TryNotify(notifications, cap.owner, c,
                                                          CAPSULE_OPENED, notifOk)
                                           ELSE notifications
                       /\ visits' = NextVisits(r, rec.received_status,
                                                DeliveryInstant(cap.delivery_date,
                                                                cap.delivery_time) <= now,
                                                opened, opened /\ notifOk)
                       /\ last' = [op |-> "resolve", capsule |-> c, recipient |-> r, job |-> 0,
                                   token |-> value, result |-> "capsule",
                                   detail |-> IF opened THEN "opened" ELSE "no_transition"]

\* Two requests to the gate served at the same time.  get_object reads the
\* recipient row once (the get at views.py:164) and decides on the status it
\* has read; the save and the notification come later, with no lock and no
\* transaction around the two, so another request can read in between.
Requests == 1..2

\* get_object up to the checks: the lookup, the refusals, and the status read
GateRead(p, value, wellFormed) ==
    LET NotFound(detail) ==
            /\ last' = [NoOp EXCEPT !.op = "resolve", !.result = "not_found",
                                    !.detail = detail,
                                    !.token = IF wellFormed THEN value ELSE NoToken]
            /\ inflight' = inflight
    IN
    /\ p \notin DOMAIN inflight
    /\ UNCHANGED << now, DEBUG, capsules, recipients, contents, deliveryLogs, notifications,
                    jobs, outbox, nextCapsuleId, nextRecipientId, nextContentId,
                    issuedTokens, blobs, running, users, acct, visits >>
    /\ IF ~wellFormed
       THEN NotFound("malformed")
       ELSE IF RecipientsByToken(AsVersion4(value)) = {}
       THEN NotFound("unknown")
       ELSE LET r == CHOOSE x \in RecipientsByToken(AsVersion4(value)) : TRUE
                rec == recipients[r]
                cap == capsules[rec.capsule]
            IN IF IsTimeLocked(cap, now)
               THEN NotFound("time_locked")
               ELSE IF IsNotUnlocked(cap)
               THEN NotFound("not_unlocked")
               ELSE /\ inflight' = Put(inflight, p,
                                       [recipient |-> r, capsule |-> rec.capsule,
                                        received_status |-> rec.received_status,
                                        due |-> DeliveryInstant(cap.delivery_date,
                                                                cap.delivery_time) <= now])
                    /\ last' = [NoOp EXCEPT !.op = "gate_read", !.capsule = rec.capsule,
                                            !.recipient = r, !.token = value,
                                            !.result = "read"]

\* get_object from the status test on (views.py:188-226), for the status the
\* request has read: the save of received_status, the owner's notification,
\* the capsule returned
GateWrite(p, notifOk) ==
    /\ p \in DOMAIN inflight
    /\ LET req == inflight[p]
           r == req.recipient
           c == req.capsule
           opened == \/ req.received_status = SENT
                     \/ req.received_status = PENDING /\ req.due
       IN /\ r \in DOMAIN recipients /\ c \in DOMAIN capsules
          /\ recipients' = IF opened
                           THEN [recipients EXCEPT ![r].received_status = OPENED]
                           ELSE recipients
          /\ notifications' = IF opened
                              THEN TryNotify(notifications, capsules[c].owner, c,
                                             CAPSULE_OPENED, notifOk)
                              ELSE notifications
          /\ last' = [NoOp EXCEPT !.op = "resolve", !.capsule = c, !.recipient = r,
                                  !.result = "capsule",
                                  !.detail = IF opened THEN "opened" ELSE "no_transition"]
    /\ inflight' = Restrict(inflight, (DOMAIN inflight) \ {p})
    /\ UNCHANGED << now, DEBUG, capsules, contents, deliveryLogs, jobs, outbox,
                    nextCapsuleId, nextRecipientId, nextContentId, issuedTokens, blobs,
                    running, users, acct, visits >>

\* The response to a refused request.  A token that is not in the form of
\* <uuid:access_token> matches no route: the resolver answers with the 404 page
\* of the site and get_object is not called.  The Http404 raised by get_object
\* reaches the exception handler of the framework, which, depending on the
\* installed release, passes the message of the exception on as the detail
\* (passesMessage) or replaces it by its own.
ResolverPage == "Not Found: The requested resource was not found on this server."
FrameworkDetail == "Not found."
Http404Message(detail) ==
    CASE detail = "malformed"    -> "Invalid token format."
      [] detail = "unknown"      -> "Capsule not found or access token is invalid."
      [] detail = "time_locked"  -> "This time capsule is not yet available."
      [] detail = "not_unlocked" -> "This time capsule is not currently accessible."
NotFoundResponse(detail, passesMessage) ==
    IF detail = "malformed"
    THEN [status |-> 404, content_type |-> "text/html", body |-> ResolverPage]
    ELSE [status |-> 404, content_type |-> "application/json",
          body |-> IF passesMessage THEN Http404Message(detail) ELSE FrameworkDetail]

(* -------------------------- owner endpoints ---------------------------- *)
\* a deletion that leaves the recipients of the capsule
DeleteCascade_KeepsRecipients(c) ==
    /\ capsules' = Restrict(capsules, (DOMAIN capsules) \ {c})
    /\ recipients' = recipients
    /\ contents' = Restrict(contents, { k \in DOMAIN contents : contents[k].capsule # c })
    /\ deliveryLogs' = Restrict(deliveryLogs, { l \in DOMAIN deliveryLogs : l.capsule # c })

\* on_delete=CASCADE for contents, recipients and logs, SET_NULL for notifications
DeleteCascade(c) ==
    /\ capsules' = Restrict(capsules, (DOMAIN capsules) \ {c})
    /\ recipients' = Restrict(recipients, { r \in DOMAIN recipients : recipients[r].capsule # c })
    /\ contents' = Restrict(contents, { k \in DOMAIN contents : contents[k].capsule # c })
    /\ deliveryLogs' = Restrict(deliveryLogs, { l \in DOMAIN deliveryLogs : l.capsule # c })

NullifyCapsule(ns, c) ==
    LET Nullified(n) == IF n.capsule = c THEN [n EXCEPT !.capsule = NoCapsule] ELSE n
    IN BagOfAll(Nullified, ns)

\* CapsuleDeleteView.delete
DeleteCapsule(user, c, notifOk) ==
    /\ UNCHANGED << now, DEBUG, jobs, outbox, nextCapsuleId, nextRecipientId,
                    nextContentId, issuedTokens, blobs, inflight, running, users, acct >>
    /\ visits' = NoVisits
    /\ IF c \in DOMAIN capsules /\ capsules[c].owner = user
       THEN /\ DeleteCascade(c)
            /\ notifications' = TryNotify(NullifyCapsule(notifications, c), user, NoCapsule,
                                          SYSTEM_ALERT, notifOk)
            /\ last' = [NoOp EXCEPT !.op = "delete", !.capsule = c, !.result = "deleted"]
       ELSE /\ last' = [NoOp EXCEPT !.op = "delete", !.capsule = c, !.result = "not_found"]
            /\ UNCHANGED << capsules, recipients, contents, deliveryLogs, notifications >>

\* CapsuleViewSet.update / partial_update: any authenticated user, the writable
\* fields of CapsuleSerializer.Meta
UpdateCapsule(user, c, d, t) ==
    /\ c \in DOMAIN capsules
    /\ capsules' = [capsules EXCEPT ![c].delivery_date = d, ![c].delivery_time = t]
    /\ last' = [NoOp EXCEPT !.op = "update", !.capsule = c, !.result = "updated"]
    /\ visits' = NoVisits
    /\ UNCHANGED << now, DEBUG, recipients, contents, deliveryLogs, notifications, jobs,
                    outbox, nextCapsuleId, nextRecipientId, nextContentId, issuedTokens,
                    blobs, inflight, running, users, acct >>

\* CapsuleViewSet.destroy (DestroyModelMixin): get_object over
\* queryset = Capsule.objects.all(), then instance.delete(); the permission is
\* IsAuthenticated alone, and no notification is written
DestroyCapsule(user, c) ==
    /\ UNCHANGED << now, DEBUG, jobs, outbox, nextCapsuleId, nextRecipientId,
                    nextContentId, issuedTokens, blobs, inflight, running, users, acct >>
    /\ visits' = NoVisits
    /\ IF c \in DOMAIN capsules
       THEN /\ DeleteCascade(c)
            /\ notifications' = NullifyCapsule(notifications, c)
            /\ last' = [NoOp EXCEPT !.op = "destroy", !.capsule = c, !.result = "deleted"]
       ELSE /\ last' = [NoOp EXCEPT !.op = "destroy", !.capsule = c, !.result = "not_found"]
            /\ UNCHANGED << capsules, recipients, contents, deliveryLogs, notifications >>

\* CapsuleContent.delete: the file is deleted from the storage first, an
\* error of the storage is logged and swallowed, then the row is deleted.
\* Only a call of delete() on the instance runs this; the cascade from a
\* capsule deletes the rows in the database without calling it.
DeleteContent(k, storageOk) ==
    /\ k \in DOMAIN contents
    /\ blobs' = IF contents[k].file # NoFile /\ storageOk THEN blobs \ {k} ELSE blobs
    /\ contents' = Restrict(contents, (DOMAIN contents) \ {k})
    /\ last' = [NoOp EXCEPT !.op = "delete_content", !.capsule = contents[k].capsule,
                            !.result = "deleted",
                            !.detail = IF contents[k].file = NoFile THEN "no_file"
                                       ELSE IF storageOk THEN "released"
                                       ELSE "storage_error"]
    /\ visits' = visits
    /\ UNCHANGED << now, DEBUG, capsules, recipients, deliveryLogs, notifications, jobs,
                    outbox, nextCapsuleId, nextRecipientId, nextContentId, issuedTokens,
                    inflight, running, users, acct >>

\* CapsuleListView.get: the capsules listed for the requesting user
CapsuleList(user) ==
    { c \in DOMAIN capsules : capsules[c].owner = user /\ ~capsules[c].is_archived }

\* CapsuleDetailView.get
CapsuleDetail(user, c) ==
    IF c \in DOMAIN capsules /\ capsules[c].owner = user THEN "capsule" ELSE "not_found"

\* CapsuleViewSet.queryset
ViewSetQueryset(user) == DOMAIN capsules

\* CapsuleViewSet.list (ListModelMixin)
ViewSetList(user) == ViewSetQueryset(user)

\* CapsuleViewSet.retrieve (RetrieveModelMixin)
ViewSetRetrieve(user, c) ==
    IF c \in ViewSetQueryset(user) THEN "capsule" ELSE "not_found"

(* ---------------------------- notifications ---------------------------- *)
\* a notification marked read whether or not it is read already
MarkReadRow_Always(n, current) ==
    [n EXCEPT !.is_read = TRUE, !.read_at = current]

\* NotificationMarkReadView.post, the body of the try: is_read and read_at are
\* written only when the notification is unread
MarkReadRow(n, current) ==
    IF ~n.is_read THEN [n EXCEPT !.is_read = TRUE, !.read_at = current] ELSE n

\* one copy of the row n replaced by the row m
ReplaceOne(table, n, m) == (table (-) SetToBag({n})) (+) SetToBag({m})

\* NotificationMarkReadView.post: n is the row the primary key names; a row of
\* another user is not found
MarkRead(user, n) ==
    /\ BagIn(n, notifications)
    /\ IF n.user = user
       THEN /\ notifications' = ReplaceOne(notifications, n, MarkReadRow(n, now))
            /\ last' = [NoOp EXCEPT !.op = "mark_read", !.result = "ok",
                                    !.detail = IF n.is_read THEN "already_read" ELSE "marked"]
       ELSE /\ notifications' = notifications
            /\ last' = [NoOp EXCEPT !.op = "mark_read", !.result = "not_found"]
    /\ UNCHANGED << now, DEBUG, capsules, recipients, contents, deliveryLogs, jobs, outbox,
                    nextCapsuleId, nextRecipientId, nextContentId, issuedTokens, blobs,
                    inflight, running, users, acct, visits >>

\* NotificationMarkAllReadView.post:
\* filter(user=, is_read=False).update(is_read=True, read_at=now)
MarkAllRead(user) ==
    LET Marked(n) == IF n.user = user /\ ~n.is_read
                     THEN [n EXCEPT !.is_read = TRUE, !.read_at = now] ELSE n
    IN /\ notifications' = BagOfAll(Marked, notifications)
       /\ last' = [NoOp EXCEPT !.op = "mark_all_read", !.result = "ok"]
       /\ UNCHANGED << now, DEBUG, capsules, recipients, contents, deliveryLogs, jobs, outbox,
                       nextCapsuleId, nextRecipientId, nextContentId, issuedTokens, blobs,
                       inflight, running, users, acct, visits >>

(* ------------------------------ accounts ------------------------------- *)
\* In the account operations a tick of the clock stands for SecondsPerTick
\* seconds, the resolution at which the validity of an OTP is decided.
SecondsPerTick == 600
\* getattr(settings, 'OTP_VALIDITY_DURATION_SECONDS', 600)
OTP_VALIDITY_DURATION_SECONDS == 600

\* the rows of the capsule application, which no account operation touches
capsuleStore == << DEBUG, capsules, recipients, contents, deliveryLogs, notifications,
                   jobs, outbox, nextCapsuleId, nextRecipientId, nextContentId,
                   issuedTokens, blobs, inflight, running, visits >>

\* (timezone.now() - user.otp_created_at).total_seconds()
ElapsedSeconds(created, current) == (current - created) * SecondsPerTick

\* an OTP that never expires
OtpExpired_Never(created, current) ==
    FALSE

\* serializers.py:203-204 and 275-276: the stored OTP is older than its
\* validity
OtpExpired(created, current) ==
    /\ created # NoInstant
    /\ ElapsedSeconds(created, current) > OTP_VALIDITY_DURATION_SECONDS

\* User.objects.create_user under the defaults of the model: is_active False
NewUser(password) ==
    [password |-> password, is_active |-> FALSE, otp |-> NoCode,
     otp_created_at |-> NoInstant]

\* what an account operation leaves in the history
Answer(op, email, code, result, origin, verified) ==
    [op |-> op, email |-> email, code |-> code, result |-> result,
     origin |-> origin, verified |-> verified]

\* UserRegistrationView.post: UserRegistrationSerializer.validate and create.
\* code is the OTP random.choices draws.
Register(email, password, password2, code) ==
    /\ IF password # password2 \/ email \in DOMAIN users
       THEN /\ users' = users
            /\ acct' = Answer("register", email, NoCode, "rejected", acct.origin, acct.verified)
       ELSE /\ users' = Put(users, email, [NewUser(password) EXCEPT !.otp = code,
                                                                   !.otp_created_at = now])
            /\ acct' = Answer("register", email, code, "created",
                              [acct.origin EXCEPT ![email] = "register"],
                              [acct.verified EXCEPT ![email] = FALSE])
    /\ last' = [NoOp EXCEPT !.op = "account"]
    /\ UNCHANGED << now, capsuleStore >>

\* VerifyAccountView.post: VerifyAccountSerializer.validate and save
VerifyAccount(email, code) ==
    /\ IF email \notin DOMAIN users
       THEN /\ users' = users
            /\ acct' = Answer("verify_account", email, code, "invalid", acct.origin, acct.verified)
       ELSE IF users[email].is_active
       THEN /\ users' = users
            /\ acct' = Answer("verify_account", email, code, "already_verified",
                              acct.origin, acct.verified)
       ELSE IF users[email].otp # code
       THEN /\ users' = users
            /\ acct' = Answer("verify_account", email, code, "invalid", acct.origin, acct.verified)
       ELSE IF OtpExpired(users[email].otp_created_at, now)
       THEN /\ users' = [users EXCEPT ![email].otp = NoCode,
                                      ![email].otp_created_at = NoInstant]
            /\ acct' = Answer("verify_account", email, code, "expired",
                              [acct.origin EXCEPT ![email] = "none"], acct.verified)
       ELSE IF users[email].otp_created_at = NoInstant
       THEN /\ users' = users
            /\ acct' = Answer("verify_account", email, code, "not_found", acct.origin, acct.verified)
       ELSE /\ users' = [users EXCEPT ![email].is_active = TRUE,
                                      ![email].otp = NoCode,
                                      ![email].otp_created_at = NoInstant]
            /\ acct' = Answer("verify_account", email, code, "accepted",
                              [acct.origin EXCEPT ![email] = "none"], acct.verified)
    /\ last' = [NoOp EXCEPT !.op = "account"]
    /\ UNCHANGED << now, capsuleStore >>

\* PasswordResetRequestView.post: PasswordResetRequestSerializer.validate_email
\* and save
PasswordResetRequest(email, code) ==
    /\ IF email \notin DOMAIN users
       THEN /\ users' = users
            /\ acct' = Answer("reset_request", email, NoCode, "rejected", acct.origin, acct.verified)
       ELSE /\ users' = [users EXCEPT ![email].otp = code, ![email].otp_created_at = now]
            /\ acct' = Answer("reset_request", email, code, "sent",
                              [acct.origin EXCEPT ![email] = "reset"],
                              [acct.verified EXCEPT ![email] = FALSE])
    /\ last' = [NoOp EXCEPT !.op = "account"]
    /\ UNCHANGED << now, capsuleStore >>

\* OTPVerifyView.post: OTPVerifySerializer.validate
OTPVerify(email, code) ==
    /\ IF email \notin DOMAIN users
       THEN /\ users' = users
            /\ acct' = Answer("verify_otp", email, code, "invalid", acct.origin, acct.verified)
       ELSE IF users[email].otp # code
       THEN /\ users' = users
            /\ acct' = Answer("verify_otp", email, code, "invalid", acct.origin, acct.verified)
       ELSE IF OtpExpired(users[email].otp_created_at, now)
       THEN /\ users' = [users EXCEPT ![email].otp = NoCode,
                                      ![email].otp_created_at = NoInstant]
            /\ acct' = Answer("verify_otp", email, code, "expired",
                              [acct.origin EXCEPT ![email] = "none"], acct.verified)
       ELSE IF users[email].otp_created_at = NoInstant
       THEN /\ users' = users
            /\ acct' = Answer("verify_otp", email, code, "not_found", acct.origin, acct.verified)
       ELSE /\ users' = [users EXCEPT ![email].otp = NoCode]
            /\ acct' = Answer("verify_otp", email, code, "accepted",
                              [acct.origin EXCEPT ![email] = "none"],
                              [acct.verified EXCEPT ![email] = (acct.origin[email] = "reset")])
    /\ last' = [NoOp EXCEPT !.op = "account"]
    /\ UNCHANGED << now, capsuleStore >>

\* PasswordResetSetNewView.post (AllowAny): PasswordResetSetNewSerializer
\* validate and save
PasswordResetSetNew(email, password, password2) ==
    /\ IF password # password2 \/ email \notin DOMAIN users
       THEN /\ users' = users
            /\ acct' = Answer("set_new_password", email, NoCode, "rejected",
                              acct.origin, acct.verified)
       ELSE /\ users' = [users EXCEPT ![email].password = password,
                                      ![email].otp = NoCode,
                                      ![email].otp_created_at = NoInstant]
            /\ acct' = Answer("set_new_password", email, NoCode, "changed",
                              [acct.origin EXCEPT ![email] = "none"],
                              [acct.verified EXCEPT ![email] = FALSE])
    /\ last' = [NoOp EXCEPT !.op = "account"]
    /\ UNCHANGED << now, capsuleStore >>

\* GoogleLoginView.post: tokenOk says whether verify_oauth2_token accepts the
\* ID token, email is the email it carries
GoogleLogin(email, tokenOk) ==
    /\ IF ~tokenOk
       THEN /\ users' = users
            /\ acct' = Answer("google_login", email, NoCode, "rejected", acct.origin, acct.verified)
       ELSE /\ users' = IF email \in DOMAIN users
                        THEN [users EXCEPT ![email].is_active = TRUE]
                        ELSE Put(users, email,
                                 [NewUser(UnusablePassword) EXCEPT !.is_active = TRUE])
            /\ acct' = Answer("google_login", email, NoCode, "signed_in",
                              acct.origin, acct.verified)
    /\ last' = [NoOp EXCEPT !.op = "account"]
    /\ UNCHANGED << now, capsuleStore >>

\* UserLoginView.post: authenticate() and the check of is_active
Login(email, password) ==
    IF email \in DOMAIN users /\ users[email].password = password
    THEN IF users[email].is_active THEN "tokens" ELSE "not_verified"
    ELSE IF email \in DOMAIN users /\ ~users[email].is_active THEN "not_verified"
    ELSE "invalid_credentials"

\* ChangePasswordView.post (IsAuthenticated): the requesting user is one that
\* has signed in; ChangePasswordSerializer validate and save
ChangePassword(email, old, new, new2) ==
    /\ email \in DOMAIN users
    /\ users[email].is_active
    /\ IF users[email].password = old /\ new = new2 /\ old # new
       THEN /\ users' = [users EXCEPT ![email].password = new]
            /\ acct' = Answer("change_password", email, NoCode, "changed",
                              acct.origin, acct.verified)
       ELSE /\ users' = users
            /\ acct' = Answer("change_password", email, NoCode, "rejected",
                              acct.origin, acct.verified)
    /\ last' = [NoOp EXCEPT !.op = "account"]
    /\ UNCHANGED << now, capsuleStore >>

(* --------------------------- specifications ---------------------------- *)
TextInputs == {"", "hello"}

\* the store is reliable: no write raises
Next ==
    \/ Tick
    \/ \E owner \in Users, email \in Emails, d \in Dates, t \in Times \cup {NoTime},
          combineOk \in BOOLEAN :
          /\ nextCapsuleId <= MaxCapsules
          /\ CreateCapsule(owner, email, d, t, "hello", << >>, combineOk, TRUE)
    \/ \E j \in DOMAIN jobs, res \in SenderResults : ExecuteJob(j, res, "none")
    \/ \E j \in DOMAIN jobs, res \in SenderResults : RedeliverJob(j, res, "none")
    \/ \E wellFormed \in BOOLEAN, value \in Presentable(MaxCapsules) :
          ResolveToken(wellFormed, value, TRUE)
    \/ \E user \in Users, c \in DOMAIN capsules : DeleteCapsule(user, c, TRUE)
    \/ \E user \in Users, c \in DOMAIN capsules, d \in Dates, t \in Times :
          UpdateCapsule(user, c, d, t)

Spec == Init /\ [][Next]_vars

\* the capsule endpoints of the authenticated principals, the debug override
\* off: two users, capsules of both, a sender that succeeds, the owner
\* endpoints and the router-registered viewset
InitPrincipals == Init /\ ~DEBUG

NextPrincipals ==
    \/ Tick
    \/ \E owner \in Users, email \in Emails :
          /\ nextCapsuleId <= MaxStoreCapsules
          /\ CreateCapsule(owner, email, 0, 0, "hello", << >>, TRUE, TRUE)
    \/ \E j \in DOMAIN jobs : ExecuteJob(j, <<TRUE, SentOkMessage>>, "none")
    \/ \E user \in Users, c \in DOMAIN capsules : DeleteCapsule(user, c, TRUE)
    \/ \E user \in Users, c \in DOMAIN capsules, d \in Dates :
          UpdateCapsule(user, c, d, 0)
    \/ \E user \in Users, c \in DOMAIN capsules : DestroyCapsule(user, c)

SpecPrincipals == InitPrincipals /\ [][NextPrincipals]_vars

\* the notification endpoints: notifications of two users written by creation
\* and deletion, marked read one by one or all at once
NextNotifications ==
    \/ Tick
    \/ \E owner \in Users, email \in Emails :
          /\ nextCapsuleId <= MaxStoreCapsules
          /\ CreateCapsule(owner, email, 0, 0, "hello", << >>, TRUE, TRUE)
    \/ \E user \in Users, c \in DOMAIN capsules : DeleteCapsule(user, c, TRUE)
    \/ \E user \in Users, n \in DOMAIN notifications : MarkRead(user, n)
    \/ \E user \in Users : MarkAllRead(user)

SpecNotifications == InitPrincipals /\ [][NextNotifications]_vars

\* a store whose writes can fail: one capsule, both sender results, every
\* write of the task and every notification write failing or not
NextFaults ==
    \/ Tick
    \/ \E email \in Emails, notifOk \in BOOLEAN :
          /\ nextCapsuleId <= MaxCapsules
          /\ CreateCapsule("alice", email, 0, 0, "hello", << >>, TRUE, notifOk)
    \/ \E j \in DOMAIN jobs, res \in SenderResults, fault \in StoreFaults :
          ExecuteJob(j, res, fault)
    \/ \E value \in Presentable(MaxCapsules), notifOk \in BOOLEAN :
          ResolveToken(TRUE, value, notifOk)
    \/ \E c \in DOMAIN capsules, notifOk \in BOOLEAN : DeleteCapsule("alice", c, notifOk)

SpecFaults == InitPrincipals /\ [][NextFaults]_vars

\* the gate under concurrent requests: one capsule, a sender that succeeds,
\* two requests that read and write in any interleaving
NextGate ==
    \/ Tick
    \/ \E email \in Emails :
          /\ nextCapsuleId <= MaxCapsules
          /\ CreateCapsule("alice", email, 0, 0, "hello", << >>, TRUE, TRUE)
    \/ \E j \in DOMAIN jobs : ExecuteJob(j, <<TRUE, SentOkMessage>>, "none")
    \/ \E p \in Requests, value \in Presentable(MaxCapsules), wellFormed \in BOOLEAN :
          GateRead(p, value, wellFormed)
    \/ \E p \in Requests : GateWrite(p, TRUE)

SpecGate == Init /\ [][NextGate]_vars

\* the delivery jobs under a fair backbone: capsules that are not deleted,
\* both sender results, token resolutions in between.  The clock advances,
\* and a message that is queued and due is eventually executed (a worker
\* consumes the queue; a retried message is resubmitted with a countdown).
NextLive ==
    \/ Tick
    \/ \E email \in Emails, t \in Times :
          /\ nextCapsuleId <= MaxStoreCapsules
          /\ CreateCapsule("alice", email, 0, t, "hello", << >>, TRUE, TRUE)
    \/ \E j \in DOMAIN jobs, res \in SenderResults : ExecuteJob(j, res, "none")
    \/ \E value \in Presentable(MaxStoreCapsules) : ResolveToken(TRUE, value, TRUE)

FairBackbone ==
    /\ WF_vars(Tick)
    /\ \A j \in 1..MaxStoreCapsules :
          WF_vars(\E res \in SenderResults : ExecuteJob(j, res, "none"))

SpecLive == InitPrincipals /\ [][NextLive]_vars /\ FairBackbone

(* ------------------------------ the store ------------------------------ *)
\* a capsule read back: capsule.contents.all() under Meta.ordering = ['order'].
\* Rows of equal order come in an order the database chooses, so a reading is
\* any arrangement of the capsule's rows that is ascending in order.
ContentReadings_Unordered(rows, c) ==
    LET keys == { k \in DOMAIN rows : rows[k].capsule = c }
        n == Cardinality(keys)
    IN { [ i \in 1..n |-> rows[p[i]] ] :
           p \in { q \in [1..n -> keys] : \A i, j \in 1..n : i # j => q[i] # q[j] } }

ContentReadings(rows, c) ==
    LET keys == { k \in DOMAIN rows : rows[k].capsule = c }
        n == Cardinality(keys)
    IN { [ i \in 1..n |-> rows[p[i]] ] :
           p \in { q \in [1..n -> keys] :
                     /\ \A i, j \in 1..n : i # j => q[i] # q[j]
                     /\ \A i, j \in 1..n : i < j => rows[q[i]].order <= rows[q[j]].order } }

\* no constraint on (capsule, recipient_email)
unique_together_Absent(rows, capsule_id, email) ==
    TRUE

\* CapsuleRecipient.Meta.unique_together = ('capsule', 'recipient_email'): may a
\* row with this pair be inserted
unique_together(rows, capsule_id, email) ==
    \A r \in DOMAIN rows :
        ~(rows[r].capsule = capsule_id /\ rows[r].recipient_email = email)

\* CapsuleRecipient.objects.create(capsule=, recipient_email=) for an existing
\* capsule: the insert of the store under the constraints of the table.  No
\* endpoint of the API adds a recipient to an existing capsule; this is the
\* operation of the model layer.
CreateRecipient(c, email) ==
    /\ c \in DOMAIN capsules
    /\ IF unique_together(recipients, c, email)
       THEN \E token \in FreshTokens(issuedTokens) :
              /\ recipients' = Put(recipients, nextRecipientId, NewRecipient(c, email, token))
              /\ nextRecipientId' = nextRecipientId + 1
              /\ issuedTokens' = issuedTokens \cup {token}
              /\ last' = [NoOp EXCEPT !.op = "create_recipient", !.capsule = c,
                                      !.recipient = nextRecipientId, !.result = "created"]
       ELSE \* IntegrityError: the row and its token are dropped
              /\ last' = [NoOp EXCEPT !.op = "create_recipient", !.capsule = c,
                                      !.result = "rejected"]
              /\ UNCHANGED << recipients, nextRecipientId, issuedTokens >>
    /\ visits' = NoVisits
    /\ UNCHANGED << now, DEBUG, capsules, contents, deliveryLogs, notifications, jobs,
                    outbox, nextCapsuleId, nextContentId, blobs, inflight, running, users, acct >>

StoreEmails == {"r1@x", "r2@x"}

\* the uploads of a request: up to MaxFiles different files, in the sequence
\* supplied
UploadInputs ==
    UNION { { f \in [1..n -> Files] : \A i, j \in 1..n : i # j => f[i] # f[j] } :
            n \in 0..MaxFiles }

\* A database from before access_token was added to CapsuleRecipient
\* (null=True, "Allow null initially for existing records"): one capsule whose
\* recipient has no token yet and whose delivery job is still queued.
LegacyInit ==
    /\ now = 0
    /\ DEBUG = FALSE
    /\ capsules = (1 :> NewCapsule("alice", 0, 0))
    /\ recipients = (1 :> NewRecipient(1, "r1@x", NoToken))
    /\ contents = << >>
    /\ deliveryLogs = EmptyBag
    /\ notifications = EmptyBag
    /\ jobs = ScheduleDelivery(DeliveryInstant(0, 0), 0, 1, 1)
    /\ outbox = EmptyBag
    /\ nextCapsuleId = 2
    /\ nextRecipientId = 2
    /\ nextContentId = 1
    /\ issuedTokens = {}
    /\ blobs = {}
    /\ inflight = << >>
    /\ running = << >>
    /\ users = << >>
    /\ acct = NoAcct
    /\ last = NoOp
    /\ visits = NoVisits

\* capsules with text and uploads: creation, delivery by a sender that
\* succeeds, and deletion
NextContents ==
    \/ Tick
    \/ \E owner \in Users, email \in Emails, text \in TextInputs, files \in UploadInputs :
          /\ nextCapsuleId <= MaxStoreCapsules
          /\ CreateCapsule(owner, email, 0, 0, text, files, TRUE, TRUE)
    \/ \E j \in DOMAIN jobs : ExecuteJob(j, <<TRUE, SentOkMessage>>, "none")
    \/ \E user \in Users, c \in DOMAIN capsules : DeleteCapsule(user, c, TRUE)

SpecContents == Init /\ [][NextContents]_vars

\* the recipients of several capsules: creation, recipients added at the
\* model layer, delivery and deletion
NextStore ==
    \/ Tick
    \/ \E email \in StoreEmails :
          /\ nextCapsuleId <= MaxStoreCapsules
          /\ CreateCapsule("alice", email, 0, 0, "hello", << >>, TRUE, TRUE)
    \/ \E c \in DOMAIN capsules, email \in StoreEmails :
          /\ unique_together(recipients, c, email) => nextRecipientId <= MaxRecipients
          /\ CreateRecipient(c, email)
    \/ \E j \in DOMAIN jobs, res \in SenderResults : ExecuteJob(j, res, "none")
    \/ \E user \in Users, c \in DOMAIN capsules : DeleteCapsule(user, c, TRUE)

SpecStore == Init /\ [][NextStore]_vars

\* the tokens of several recipients, the debug override off: a database that
\* is empty or holds a recipient without a token; creation, delivery,
\* resolution and deletion
InitTokens == (Init /\ ~DEBUG) \/ LegacyInit

NextTokens ==
    \/ Tick
    \/ \E email \in Emails :
          /\ nextCapsuleId <= MaxStoreCapsules
          /\ CreateCapsule("alice", email, 0, 0, "hello", << >>, TRUE, TRUE)
    \/ \E j \in DOMAIN jobs, res \in SenderResults : ExecuteJob(j, res, "none")
    \/ \E wellFormed \in BOOLEAN, value \in Presentable(MaxStoreCapsules) :
          ResolveToken(wellFormed, value, TRUE)
    \/ \E user \in Users, c \in DOMAIN capsules : DeleteCapsule(user, c, TRUE)

SpecTokens == InitTokens /\ [][NextTokens]_vars

\* creation with uploads in a store whose writes can fail, deletion of a
\* capsule by its owner and deletion of a single content row
NextFiles ==
    \/ \E owner \in Users, email \in Emails, text \in TextInputs, files \in UploadInputs :
          /\ nextCapsuleId <= MaxStoreCapsules
          /\ CreateCapsule(owner, email, 0, 0, text, files, TRUE, TRUE)
    \/ \E owner \in Users, email \in Emails, text \in TextInputs, files \in UploadInputs,
          failAt \in 1..(MaxFiles + 2) :
          /\ nextCapsuleId <= MaxStoreCapsules
          /\ CreateCapsuleInterrupted(owner, email, 0, 0, text, files, failAt)
    \/ \E user \in Users, c \in DOMAIN capsules : DeleteCapsule(user, c, TRUE)
    \/ \E k \in DOMAIN contents, storageOk \in BOOLEAN : DeleteContent(k, storageOk)

SpecFiles == InitPrincipals /\ [][NextFiles]_vars

\* the delivery task under concurrent executions: a database that is empty
\* or holds a recipient without a token, one more capsule, both sender
\* results, two workers whose steps interleave in any order
NextWorkers ==
    \/ Tick
    \/ \E email \in Emails :
          /\ nextCapsuleId <= MaxCapsules
          /\ CreateCapsule("alice", email, 0, 0, "hello", << >>, TRUE, TRUE)
    \/ \E w \in Workers, j \in DOMAIN jobs : TaskBegin(w, j)
    \/ \E w \in Workers : TaskIssue(w)
    \/ \E w \in Workers, res \in SenderResults : TaskFinish(w, res)

SpecWorkers == InitTokens /\ [][NextWorkers]_vars

\* the account endpoints: registration, verification, sign-in with Google,
\* password reset by OTP and password change, for two emails
NextAccounts ==
    \/ Tick
    \/ \E email \in AccountEmails, password \in Passwords, password2 \in Passwords,
          code \in Codes : Register(email, password, password2, code)
    \/ \E email \in AccountEmails, code \in Codes : VerifyAccount(email, code)
    \/ \E email \in AccountEmails, code \in Codes : PasswordResetRequest(email, code)
    \/ \E email \in AccountEmails, code \in Codes : OTPVerify(email, code)
    \/ \E email \in AccountEmails, password \in Passwords, password2 \in Passwords :
          PasswordResetSetNew(email, password, password2)
    \/ \E email \in AccountEmails, tokenOk \in BOOLEAN : GoogleLogin(email, tokenOk)
    \/ \E email \in AccountEmails, old \in Passwords, new \in Passwords,
          new2 \in Passwords : ChangePassword(email, old, new, new2)

SpecAccounts == InitPrincipals /\ [][NextAccounts]_vars

(* ------------------------------- claims -------------------------------- *)
\* the calls of the email sender made by the step: the outbox entries it added
NewCalls == { e \in DOMAIN outbox' : CopiesIn(e, outbox') > CopiesIn(e, outbox) }

\* C1: when an execution of the delivery job calls the email sender and the
\* sender reports success, then at its end the capsule is delivered and
\* unlocked, the recipient is sent with a sent date, exactly one DeliveryLog
\* was appended and it is a success log for that capsule and recipient email,
\* exactly one notification was created and it is a DELIVERY_SUCCESS one for
\* the owner, and the task returned without asking for a retry.
C1_SendSuccessRecorded ==
    [][ \A e \in NewCalls : e.success =>
          LET c == e.capsule_id
              j == e.job
              r == jobs[j].recipient_id
          IN /\ capsules'[c].is_delivered /\ capsules'[c].is_unlocked
             /\ recipients'[r].received_status = "sent"
             /\ recipients'[r].sent_date # NoInstant
             /\ BagCardinality(deliveryLogs') = BagCardinality(deliveryLogs) + 1
             /\ CountLogs(deliveryLogs', c, e.recipient_email, "success")
                  = CountLogs(deliveryLogs, c, e.recipient_email, "success") + 1
             /\ BagCardinality(notifications') = BagCardinality(notifications) + 1
             /\ CountNotifications(notifications', capsules[c].owner, c, "delivery_success")
                  = CountNotifications(notifications, capsules[c].owner, c, "delivery_success") + 1
             /\ last'.result = "returned"
             /\ jobs'[j].state = "done" /\ jobs'[j].retries = jobs[j].retries
    ]_vars

C1_Witness ==
    /\ last.op = "deliver" /\ last.detail = "sent" /\ last.result = "returned"
    /\ \E e \in DOMAIN outbox : e.success /\ e.job = last.job
    /\ capsules[last.capsule].is_delivered

\* C2: an execution of the delivery job that finds the capsule delivered and
\* the recipient sent returns normally, calls no email sender, appends no
\* DeliveryLog, creates no notification and leaves capsule and recipient as
\* they were, however often it is repeated.
C2_GuardedExecutionIsNoOp ==
    [][ \A j \in DOMAIN jobs :
          ( /\ last'.op = "deliver" /\ last'.job = j
            /\ jobs[j].capsule_id \in DOMAIN capsules
            /\ jobs[j].recipient_id \in DOMAIN recipients
            /\ recipients[jobs[j].recipient_id].capsule = jobs[j].capsule_id
            /\ capsules[jobs[j].capsule_id].is_delivered
            /\ recipients[jobs[j].recipient_id].received_status = "sent" )
          => /\ last'.result = "returned"
             /\ jobs'[j].state = "done"
             /\ outbox' = outbox
             /\ deliveryLogs' = deliveryLogs
             /\ notifications' = notifications
             /\ capsules' = capsules
             /\ recipients' = recipients
    ]_vars

\* the guard has stopped the second repetition of an execution
C2_Witness ==
    /\ last.op = "deliver" /\ last.detail = "already_delivered"
    /\ jobs[last.job].redeliveries >= 2
    /\ BagCardinality(outbox) = 1

\* C3: when an execution of the delivery job calls the email sender and the
\* sender reports failure, the recipient becomes failed, exactly one
\* DeliveryLog is appended and it is a failure log carrying the sender's
\* message, exactly one notification is created and it is a DELIVERY_FAIL one
\* for the owner, the task asks the backbone for a retry, and the capsule row
\* is left as it was.
C3_SendFailureRecorded ==
    [][ \A e \in NewCalls : ~e.success =>
          LET c == e.capsule_id
              j == e.job
              r == jobs[j].recipient_id
              added == { l \in DOMAIN deliveryLogs' :
                           CopiesIn(l, deliveryLogs') > CopiesIn(l, deliveryLogs) }
          IN /\ recipients'[r].received_status = "failed"
             /\ BagCardinality(deliveryLogs') = BagCardinality(deliveryLogs) + 1
             /\ \A l \in added : /\ l.capsule = c
                                 /\ l.recipient_email = e.recipient_email
                                 /\ l.status = "failure"
                                 /\ l.details = e.message
             /\ BagCardinality(notifications') = BagCardinality(notifications) + 1
             /\ CountNotifications(notifications', capsules[c].owner, c, "delivery_fail")
                  = CountNotifications(notifications, capsules[c].owner, c, "delivery_fail") + 1
             /\ last'.result = "retry_requested"
             /\ jobs'[j].state \in {"queued", "abandoned"}
             /\ capsules' = capsules
    ]_vars

C3_Witness ==
    /\ last.op = "deliver" /\ last.detail = "send_failed" /\ last.result = "retry_requested"
    /\ jobs[last.job].state = "queued" /\ jobs[last.job].retries = 1
    /\ recipients[last.recipient].received_status = "failed"
    /\ ~capsules[last.capsule].is_delivered

\* the calls of the email sender made for message j
CallsOf(j) == CountIn(outbox, { e \in DOMAIN outbox : e.job = j })
FailedCallsOf(j) == CountIn(outbox, { e \in DOMAIN outbox : e.job = j /\ ~e.success })

\* C4: for a job the backbone delivers once, the email sender is called at
\* most 4 times; a retry is a resubmission with a countdown of 120 seconds and
\* no absolute instant; and when all 4 calls fail the job is abandoned, and
\* an abandoned job leaves (while the rows exist) the recipient failed, the
\* capsule undelivered and 4 failure logs, one for each call.
C4_BoundedRetries ==
    \A j \in DOMAIN jobs :
        jobs[j].redeliveries = 0 =>
            /\ CallsOf(j) <= 4
            /\ jobs[j].retries <= 3
            /\ CallsOf(j) >= jobs[j].retries
            /\ jobs[j].retries > 0 =>
                   /\ jobs[j].countdown = 120 /\ jobs[j].eta = NoInstant
                   /\ FailedCallsOf(j) >= jobs[j].retries
            /\ FailedCallsOf(j) = 4 <=> jobs[j].state = "abandoned"
            /\ ( /\ jobs[j].state = "abandoned"
                 /\ jobs[j].recipient_id \in DOMAIN recipients )
               => LET c == jobs[j].capsule_id
                      rec == recipients[jobs[j].recipient_id]
                  IN /\ rec.received_status = "failed"
                     /\ ~capsules[c].is_delivered
                     /\ CountLogs(deliveryLogs, c, rec.recipient_email, "failure") = 4
                     /\ CountLogs(deliveryLogs, c, rec.recipient_email, "success") = 0

C4_Witness ==
    \E j \in DOMAIN jobs :
        /\ jobs[j].state = "abandoned" /\ jobs[j].redeliveries = 0
        /\ CallsOf(j) = 4
        /\ jobs[j].recipient_id \in DOMAIN recipients
        /\ recipients[jobs[j].recipient_id].received_status = "failed"

\* the combined, localized delivery instant of a stored capsule row
StoredInstant(cap) == cap.delivery_date * TicksPerDay + cap.delivery_time + TZOffset

\* the recipients whose stored token is the presented 128-bit value
Matching(value) ==
    { r \in DOMAIN recipients : recipients[r].access_token = value }

\* the recipients whose stored token is the presented value with its version
\* and variant bits set to those of a version-4 UUID
MatchingAfterCoercion(value) ==
    { r \in DOMAIN recipients : recipients[r].access_token = 2 * ((value + 1) \div 2) }

\* C5: with the debug override off, a resolution whose token is malformed or
\* matches no recipient, or whose capsule has its delivery instant strictly
\* after now or is not unlocked, answers not-found and changes no recipient
\* and no notification; a resolution of a matching token of an unlocked
\* capsule at exactly its delivery instant answers with the capsule.
C5_GateRefuses ==
    [][ ~DEBUG =>
        \A wf \in BOOLEAN, v \in TokenValues :
          ResolveToken(wf, v, TRUE) =>
            /\ ( \/ ~wf
                 \/ Matching(v) = {}
                 \/ \E r \in Matching(v) :
                      \/ StoredInstant(capsules[recipients[r].capsule]) > now
                      \/ ~capsules[recipients[r].capsule].is_unlocked )
               => /\ last'.result = "not_found"
                  /\ recipients' = recipients
                  /\ notifications' = notifications
            /\ ( /\ wf
                 /\ \E r \in Matching(v) :
                      /\ StoredInstant(capsules[recipients[r].capsule]) = now
                      /\ capsules[recipients[r].capsule].is_unlocked )
               => last'.result = "capsule"
    ]_vars

\* The refusals of the gate with the lookup taken as the code makes it: the
\* same statement with "matches" read as "matches after the coercion of the
\* version and variant bits".
GateRefusesByLookup ==
    [][ ~DEBUG =>
        \A wf \in BOOLEAN, v \in TokenValues :
          ResolveToken(wf, v, TRUE) =>
            /\ ( \/ ~wf
                 \/ MatchingAfterCoercion(v) = {}
                 \/ \E r \in MatchingAfterCoercion(v) :
                      \/ StoredInstant(capsules[recipients[r].capsule]) > now
                      \/ ~capsules[recipients[r].capsule].is_unlocked )
               => /\ last'.result = "not_found"
                  /\ recipients' = recipients
                  /\ notifications' = notifications
            /\ ( /\ wf
                 /\ \E r \in MatchingAfterCoercion(v) :
                      /\ StoredInstant(capsules[recipients[r].capsule]) = now
                      /\ capsules[recipients[r].capsule].is_unlocked )
               => last'.result = "capsule"
    ]_vars

\* an unlocked capsule was refused before its (moved) delivery instant, with
\* the override off
GateRefusesByLookup_Witness ==
    /\ ~DEBUG
    /\ last.op = "resolve" /\ last.result = "not_found" /\ last.detail = "time_locked"
    /\ \E c \in DOMAIN capsules : capsules[c].is_unlocked /\ StoredInstant(capsules[c]) > now

\* C6: in a run of consecutive successful resolutions of one recipient's token
\* that starts with the recipient sent, or pending with the delivery instant at
\* or before now, the status changes to opened exactly once, at the first
\* resolution, exactly one CAPSULE_OPENED notification is created in the whole
\* run, and the recipient stays opened.
C6_OpenedExactlyOnce ==
    ( /\ visits.n >= 1
      /\ visits.first = "sent" \/ (visits.first = "pending" /\ visits.due) )
    => /\ visits.transitions = 1
       /\ visits.notifs = 1
       /\ visits.openedAt = 1
       /\ visits.recipient \in DOMAIN recipients
       /\ recipients[visits.recipient].received_status = "opened"

C6_Witness ==
    /\ visits.n >= 2 /\ visits.first = "sent" /\ visits.transitions = 1
    /\ capsules[recipients[visits.recipient].capsule].is_unlocked
    /\ StoredInstant(capsules[recipients[visits.recipient].capsule]) <= now

\* C7: a resolution that answers with the capsule moves a sent recipient to
\* opened and creates one CAPSULE_OPENED notification for the owner; does the
\* same for a pending recipient whose delivery instant is at or before now;
\* leaves an opened or failed recipient and the notifications as they were;
\* and never writes the capsule.
C7_GateTransition ==
    [][ (last'.op = "resolve" /\ last'.result = "capsule") =>
          LET r == last'.recipient
              c == recipients[r].capsule
              before == recipients[r].received_status
              opens == \/ before = "sent"
                       \/ before = "pending" /\ StoredInstant(capsules[c]) <= now
          IN /\ capsules' = capsules
             /\ opens =>
                  /\ recipients' = [recipients EXCEPT ![r].received_status = "opened"]
                  /\ BagCardinality(notifications') = BagCardinality(notifications) + 1
                  /\ CountNotifications(notifications', capsules[c].owner, c, "capsule_opened")
                       = CountNotifications(notifications, capsules[c].owner, c, "capsule_opened") + 1
             /\ before \in {"opened", "failed"} =>
                  /\ recipients' = recipients
                  /\ notifications' = notifications
    ]_vars

\* a pending recipient was opened through the gate at its delivery instant
C7_Witness ==
    /\ last.op = "resolve" /\ last.result = "capsule" /\ last.detail = "opened"
    /\ visits.first = "pending" /\ visits.n = 1
    /\ StoredInstant(capsules[last.capsule]) = now

\* the message apply_async(args=[capsule, recipient], eta=, countdown=) submits
Submitted(capsule, recipient, eta, countdown) ==
    [capsule_id |-> capsule, recipient_id |-> recipient, eta |-> eta,
     countdown |-> countdown, retries |-> 0, state |-> "queued", redeliveries |-> 0]

\* C8: a creation request that supplies a delivery date and time whose
\* combination succeeds and whose instant, localized and in UTC, is strictly
\* after now submits exactly one job, for the new capsule and the new
\* recipient, with that instant as its eta and no countdown.
C8_FutureEtaScheduled ==
    [][ \A owner \in Users, email \in Emails, d \in Dates, t \in Times, text \in TextInputs :
          ( /\ CreateCapsule(owner, email, d, t, text, << >>, TRUE, TRUE)
            /\ d * TicksPerDay + t + TZOffset > now )
          => /\ jobs' = Append(jobs, Submitted(nextCapsuleId, nextRecipientId,
                                               d * TicksPerDay + t + TZOffset, NoInstant))
             /\ nextCapsuleId \in DOMAIN capsules' /\ nextCapsuleId \notin DOMAIN capsules
             /\ nextRecipientId \in DOMAIN recipients'
             /\ recipients'[nextRecipientId].capsule = nextCapsuleId
    ]_vars

C8_Witness ==
    /\ last.op = "create" /\ last.detail = "eta" /\ last.job # 0
    /\ jobs[last.job].eta > now
    /\ jobs[last.job].eta = StoredInstant(capsules[last.capsule])
    /\ capsules[last.capsule].delivery_date > 0

\* C9: a creation request that supplies a delivery date and time whose
\* combination succeeds and whose instant is at or before now submits exactly
\* one job, for the new capsule and the new recipient, with a countdown of 10
\* seconds and no eta.
C9_PastEtaCountdown ==
    [][ \A owner \in Users, email \in Emails, d \in Dates, t \in Times, text \in TextInputs :
          ( /\ CreateCapsule(owner, email, d, t, text, << >>, TRUE, TRUE)
            /\ d * TicksPerDay + t + TZOffset <= now )
          => /\ jobs' = Append(jobs, Submitted(nextCapsuleId, nextRecipientId, NoInstant, 10))
             /\ nextCapsuleId \in DOMAIN capsules' /\ nextCapsuleId \notin DOMAIN capsules
             /\ nextRecipientId \in DOMAIN recipients'
             /\ recipients'[nextRecipientId].capsule = nextCapsuleId
    ]_vars

\* a capsule was created at exactly its delivery instant
C9_Witness ==
    /\ last.op = "create" /\ last.detail = "eta" /\ last.job # 0
    /\ jobs[last.job].countdown = 10 /\ jobs[last.job].eta = NoInstant
    /\ StoredInstant(capsules[last.capsule]) = now

\* C10: is_delivered and is_unlocked of a capsule are always equal; a new
\* capsule has both false; a step changes either only if it is an execution
\* of the delivery job whose send succeeded, and then both are true after it;
\* and a flag that is true stays true while the capsule exists.
C10_FlagsTogether ==
    /\ [](\A c \in DOMAIN capsules : capsules[c].is_delivered = capsules[c].is_unlocked)
    /\ [][ \A c \in DOMAIN capsules' :
             IF c \notin DOMAIN capsules
             THEN ~capsules'[c].is_delivered /\ ~capsules'[c].is_unlocked
             ELSE /\ ( \/ capsules'[c].is_delivered # capsules[c].is_delivered
                       \/ capsules'[c].is_unlocked # capsules[c].is_unlocked )
                     => /\ \E e \in NewCalls : e.success /\ e.capsule_id = c
                        /\ last'.op = "deliver"
                        /\ capsules'[c].is_delivered /\ capsules'[c].is_unlocked
                  /\ capsules[c].is_delivered => capsules'[c].is_delivered
                  /\ capsules[c].is_unlocked => capsules'[c].is_unlocked
       ]_vars

\* a delivered capsule went through an update of its fields and a failed
\* repeated send and kept both flags
C10_Witness ==
    /\ last.op = "update"
    /\ \E c \in DOMAIN capsules : capsules[c].is_delivered /\ capsules[c].is_unlocked
    /\ \E e \in DOMAIN outbox : ~e.success
    /\ \E e \in DOMAIN outbox : e.success

\* the moves of received_status the state machine allows
ForwardMoves ==
    { <<PENDING, SENT>>, <<SENT, OPENED>>, <<PENDING, OPENED>>,
      <<PENDING, FAILED>>, <<SENT, FAILED>> }

\* the moves of received_status a step makes on the recipients it keeps
StatusMoves ==
    { <<recipients[r].received_status, recipients'[r].received_status>> :
        r \in { x \in (DOMAIN recipients) \cap (DOMAIN recipients') :
                  recipients[x].received_status # recipients'[x].received_status } }

\* C11: in every step, whatever the operation (a first execution, a retry, a
\* duplicate execution, a token resolution), a recipient's received_status
\* changes only along pending->sent, sent->opened, pending->opened,
\* pending->failed or sent->failed; it never leaves failed or opened.
C11_ForwardOnly ==
    [][ StatusMoves \subseteq ForwardMoves ]_vars

\* The moves the code makes: those of the state machine, and failed->sent (a
\* retry whose send succeeds), failed->failed is no move, opened->sent and
\* opened->failed (an execution of the job after the recipient has opened).
StatusMovesOfTheCode ==
    [][ StatusMoves \subseteq
          ForwardMoves \cup { <<FAILED, SENT>>, <<OPENED, SENT>>, <<OPENED, FAILED>> } ]_vars

\* an opened recipient is back at sent after a duplicate execution of its job
OpenedRevertedToSent ==
    /\ last.op = "deliver" /\ last.detail = "sent"
    /\ jobs[last.job].redeliveries > 0
    /\ \E n \in DOMAIN notifications :
          n.notification_type = CAPSULE_OPENED /\ n.capsule = last.capsule
    /\ recipients[last.recipient].received_status = SENT

\* C12: an execution of the delivery job that finds no capsule row, or no
\* recipient row of that capsule, calls no email sender, appends no
\* DeliveryLog, creates no notification, returns normally and asks for no
\* retry; deleting a capsule leaves its submitted job in the queue.
C12_MissingRowsEndTheJob ==
    [][ /\ \A j \in DOMAIN jobs :
             ( /\ last'.op = "deliver" /\ last'.job = j
               /\ \/ jobs[j].capsule_id \notin DOMAIN capsules
                  \/ jobs[j].recipient_id \notin DOMAIN recipients
                  \/ recipients[jobs[j].recipient_id].capsule # jobs[j].capsule_id )
             => /\ outbox' = outbox
                /\ deliveryLogs' = deliveryLogs
                /\ notifications' = notifications
                /\ capsules' = capsules /\ recipients' = recipients
                /\ last'.result = "returned"
                /\ jobs'[j].state = "done"
                /\ jobs'[j].retries = jobs[j].retries
        /\ last'.op = "delete" => jobs' = jobs
    ]_vars

\* the job of a deleted capsule was still run, and ended
C12_Witness ==
    /\ last.op = "deliver" /\ last.detail = "capsule_not_found"
    /\ last.result = "returned"
    /\ last.capsule \notin DOMAIN capsules
    /\ jobs[last.job].state = "done" /\ jobs[last.job].retries = 0
    /\ BagCardinality(outbox) = 0

\* the rows a step adds to a table
Added(before, after) == (DOMAIN after) \ (DOMAIN before)
\* the rows of a table a step leaves as they were
Kept(before, after) ==
    \A k \in DOMAIN before : k \in DOMAIN after /\ after[k] = before[k]

\* C13: a successful creation request adds exactly one capsule, owned by the
\* requesting principal, with is_delivered and is_unlocked false; at most one
\* text content (one iff the text is not blank) and one file content for each
\* uploaded file, all of the new capsule; exactly one recipient, of the new
\* capsule, pending, with a token; every job it submits names the capsule and
\* the recipient that exist at the end of the request; it calls no email
\* sender, appends no DeliveryLog and changes no existing row.
C13_CreationPersists ==
    [][ last'.op = "create" =>
        \A owner \in Users, email \in Emails, d \in Dates, t \in Times \cup {NoTime},
           text \in TextInputs, files \in UploadInputs, combineOk \in BOOLEAN :
          CreateCapsule(owner, email, d, t, text, files, combineOk, TRUE) =>
            LET c == nextCapsuleId
                r == nextRecipientId
                rows == Added(contents, contents')
                textRows == { k \in rows : contents'[k].content_type = TEXT }
                fileRows == { k \in rows : contents'[k].file # NoFile }
            IN /\ Added(capsules, capsules') = {c}
               /\ capsules'[c].owner = owner
               /\ ~capsules'[c].is_delivered /\ ~capsules'[c].is_unlocked
               /\ \A k \in rows : contents'[k].capsule = c
               /\ rows = textRows \cup fileRows /\ textRows \cap fileRows = {}
               /\ Cardinality(textRows) = (IF text # "" THEN 1 ELSE 0)
               /\ Cardinality(fileRows) = Len(files)
               /\ \A i \in 1..Len(files) : \E k \in fileRows : contents'[k].file = files[i]
               /\ Added(recipients, recipients') = {r}
               /\ recipients'[r].capsule = c
               /\ recipients'[r].received_status = PENDING
               /\ recipients'[r].access_token # NoToken
               /\ \A j \in Added(jobs, jobs') :
                     /\ jobs'[j].capsule_id = c /\ jobs'[j].recipient_id = r
                     /\ jobs'[j].state = "queued"
               /\ Kept(capsules, capsules') /\ Kept(contents, contents')
               /\ Kept(recipients, recipients') /\ Kept(jobs, jobs')
               /\ outbox' = outbox /\ deliveryLogs' = deliveryLogs
    ]_vars

\* a second capsule was just created with a text and two files, its job is
\* queued and no email has been sent for it
C13_Witness ==
    /\ last.op = "create" /\ last.capsule = 2 /\ last.job # 0
    /\ Cardinality({ k \in DOMAIN contents : contents[k].capsule = 2 }) = 3
    /\ recipients[last.recipient].received_status = PENDING
    /\ jobs[last.job].state = "queued"
    /\ \A e \in DOMAIN outbox : e.capsule_id # 2

\* C14: a successful creation request whose stored delivery_date and
\* delivery_time form a valid instant submits exactly one job, for the new
\* capsule and its recipient, whether the request supplied delivery_time or
\* left it to the model default 00:00.
C14_ExactlyOneJob ==
    [][ last'.op = "create" =>
        \A owner \in Users, email \in Emails, d \in Dates, t \in Times \cup {NoTime},
           text \in TextInputs :
          CreateCapsule(owner, email, d, t, text, << >>, TRUE, TRUE) =>
            /\ Len(jobs') = Len(jobs) + 1
            /\ jobs'[Len(jobs')].capsule_id = nextCapsuleId
            /\ jobs'[Len(jobs')].recipient_id = nextRecipientId
    ]_vars

\* a capsule stored with the default time 00:00 and no job for it
CreatedWithoutJob ==
    /\ last.op = "create" /\ last.detail = "no_time" /\ last.job = 0
    /\ capsules[last.capsule].delivery_time = 0
    /\ \A j \in DOMAIN jobs : jobs[j].capsule_id # last.capsule

\* C15: when the combination of delivery_date and delivery_time raises, the
\* creation request still succeeds and leaves the capsule, its text content
\* and its pending recipient, and submits no job.
C15_CombineFailureSkipsScheduling ==
    [][ last'.op = "create" =>
        \A owner \in Users, email \in Emails, d \in Dates, t \in Times, text \in TextInputs :
          CreateCapsule(owner, email, d, t, text, << >>, FALSE, TRUE) =>
            LET c == nextCapsuleId
                r == nextRecipientId
            IN /\ last'.result = "created"
               /\ Added(capsules, capsules') = {c}
               /\ capsules'[c].delivery_date = d /\ capsules'[c].delivery_time = t
               /\ Added(recipients, recipients') = {r}
               /\ recipients'[r].capsule = c
               /\ Cardinality(Added(contents, contents')) = (IF text # "" THEN 1 ELSE 0)
               /\ \A k \in Added(contents, contents') : contents'[k].capsule = c
               /\ jobs' = jobs
    ]_vars

C15_Witness ==
    /\ last.op = "create" /\ last.detail = "combine_failed" /\ last.result = "created"
    /\ last.capsule \in DOMAIN capsules /\ last.recipient \in DOMAIN recipients
    /\ \E k \in DOMAIN contents : contents[k].capsule = last.capsule
    /\ jobs = << >>

\* the display orders of a reading
OrdersOf(reading) == [ i \in DOMAIN reading |-> reading[i].order ]

\* C16: every reading of a capsule's contents is ascending in display order;
\* the display orders within one capsule are distinct and increase in the
\* sequence the rows were created, so the reading is unique; and a capsule
\* created with a text and two files is read back with orders [0, 1, 2], the
\* text first and then the files in the sequence supplied.
C16_ContentsReadInOrder ==
    /\ [] ( \A c \in DOMAIN capsules :
              /\ \A reading \in ContentReadings(contents, c) :
                    \A i, j \in DOMAIN reading :
                        i < j => reading[i].order <= reading[j].order
              /\ \A k1, k2 \in DOMAIN contents :
                    ( /\ contents[k1].capsule = c /\ contents[k2].capsule = c
                      /\ k1 < k2 ) => contents[k1].order < contents[k2].order
              /\ Cardinality(ContentReadings(contents, c)) = 1 )
    /\ [][ last'.op = "create" =>
            \A owner \in Users, email \in Emails, text \in TextInputs \ {""},
               files \in { f \in UploadInputs : Len(f) = 2 } :
              CreateCapsule(owner, email, 0, 0, text, files, TRUE, TRUE) =>
                \A reading \in ContentReadings(contents', nextCapsuleId) :
                    /\ OrdersOf(reading) = << 0, 1, 2 >>
                    /\ reading[1].content_type = TEXT /\ reading[1].text_content = text
                    /\ reading[2].file = files[1]
                    /\ reading[3].file = files[2]
       ]_vars

\* a capsule created with a text and the files notes, photo in that sequence,
\* next to another capsule that has contents too
C16_Witness ==
    /\ last.op = "create" /\ last.capsule = 2
    /\ \E k \in DOMAIN contents : contents[k].capsule = 1
    /\ \E reading \in ContentReadings(contents, 2) :
          /\ Len(reading) = 3
          /\ reading[1].content_type = TEXT
          /\ reading[2].file.name = "notes" /\ reading[3].file.name = "photo"

\* C17 as stated: for a request with N uploaded files the i-th file is stored
\* with display order i, and the text, when present, with display order 0.
C17_FileOrderIsIndex ==
    [][ last'.op = "create" =>
        \A owner \in Users, email \in Emails, text \in TextInputs, files \in UploadInputs :
          CreateCapsule(owner, email, 0, 0, text, files, TRUE, TRUE) =>
            \A k \in Added(contents, contents') :
                /\ contents'[k].content_type = TEXT => contents'[k].order = 0
                /\ \A i \in 1..Len(files) :
                      contents'[k].file = files[i] => contents'[k].order = i
    ]_vars

\* C17, amended: the i-th uploaded file is stored with display order i when
\* the request carries a text that is not blank and with display order i-1
\* when it carries none; the text, when not blank, is stored with display
\* order 0.
C17_FileOrderFromStart ==
    [][ last'.op = "create" =>
        \A owner \in Users, email \in Emails, text \in TextInputs, files \in UploadInputs :
          CreateCapsule(owner, email, 0, 0, text, files, TRUE, TRUE) =>
            /\ \A k \in Added(contents, contents') :
                  /\ contents'[k].content_type = TEXT => contents'[k].order = 0
                  /\ \A i \in 1..Len(files) :
                        contents'[k].file = files[i] =>
                            contents'[k].order = (IF text # "" THEN i ELSE i - 1)
            /\ \A i \in 1..Len(files) :
                  \E k \in Added(contents, contents') : contents'[k].file = files[i]
    ]_vars

\* a capsule created without text whose two files have the orders 0 and 1
C17_Witness ==
    /\ last.op = "create"
    /\ { contents[k].order : k \in { x \in DOMAIN contents :
                                         contents[x].capsule = last.capsule } } = {0, 1}
    /\ \A k \in DOMAIN contents :
          contents[k].capsule = last.capsule => contents[k].file # NoFile

\* is the pair (capsule, recipient_email) held by a row
HasPair(rows, c, email) ==
    \E r \in DOMAIN rows : rows[r].capsule = c /\ rows[r].recipient_email = email

\* C18: in every reachable state no two recipients share the pair
\* (capsule, recipient_email); creating a recipient whose email is already on
\* the same capsule is rejected and leaves the recipients as they were, and
\* creating one whose email is on no row of that capsule, a different capsule
\* holding it or not, adds exactly that row and changes no other.
C18_PairUnique ==
    /\ [] ( \A r1, r2 \in DOMAIN recipients :
              ( /\ recipients[r1].capsule = recipients[r2].capsule
                /\ recipients[r1].recipient_email = recipients[r2].recipient_email )
              => r1 = r2 )
    /\ [][ last'.op = "create_recipient" =>
            \A c \in DOMAIN capsules, email \in StoreEmails :
              CreateRecipient(c, email) =>
                IF HasPair(recipients, c, email)
                THEN /\ last'.result = "rejected"
                     /\ recipients' = recipients
                ELSE /\ last'.result = "created"
                     /\ Added(recipients, recipients') = {nextRecipientId}
                     /\ recipients'[nextRecipientId].capsule = c
                     /\ recipients'[nextRecipientId].recipient_email = email
                     /\ \A r \in DOMAIN recipients : recipients'[r] = recipients[r]
       ]_vars

\* a recipient was added to capsule 2 with the email that capsule 1 holds, and
\* adding it to capsule 2 once more is rejected
C18_Witness ==
    /\ last.op = "create_recipient" /\ last.result = "rejected" /\ last.capsule = 2
    /\ HasPair(recipients, 1, "r1@x")
    /\ HasPair(recipients, 2, "r1@x")
    /\ HasPair(recipients, 2, "r2@x")

\* the tokens held by the recipients
HeldTokens(rows) == { rows[r].access_token : r \in DOMAIN rows } \ {NoToken}

Refusals == {"malformed", "unknown", "time_locked", "not_unlocked"}

\* C20: with the debug override off, every refusal of the token endpoint has
\* the response (status and body) of every other refusal, whatever the reason:
\* malformed token, unknown token, time-locked capsule, capsule not unlocked.
C20_UniformNotFound ==
    ( ~DEBUG /\ last.op = "resolve" /\ last.result = "not_found" ) =>
        \A passesMessage \in BOOLEAN, other \in Refusals :
            NotFoundResponse(last.detail, passesMessage)
                = NotFoundResponse(other, passesMessage)

\* the status alone is the same for every refusal
C20_StatusUniform ==
    ( ~DEBUG /\ last.op = "resolve" /\ last.result = "not_found" ) =>
        \A passesMessage \in BOOLEAN, other \in Refusals :
            NotFoundResponse(last.detail, passesMessage).status
                = NotFoundResponse(other, passesMessage).status

\* a capsule that is past its instant and not unlocked is refused with a body
\* that differs from the one for an unknown token
C20_RefusalsDiffer ==
    /\ ~DEBUG /\ last.op = "resolve" /\ last.detail = "not_unlocked"
    /\ \E passesMessage \in BOOLEAN :
          NotFoundResponse(last.detail, passesMessage).body
              # NotFoundResponse("unknown", passesMessage).body

\* the rows of the store
storeRows == << capsules, recipients, contents, deliveryLogs, notifications >>

\* C21: for a principal that is not the owner of a capsule, the list and the
\* detail endpoint and the list and retrieve of the router-registered viewset
\* omit the capsule or answer not-found, and a delete, a viewset update or a
\* viewset destroy requested by that principal changes no row.
C21_OwnerOnly ==
    /\ [] ( \A user \in Users, c \in DOMAIN capsules :
              capsules[c].owner # user =>
                  /\ c \notin CapsuleList(user)
                  /\ CapsuleDetail(user, c) = "not_found"
                  /\ c \notin ViewSetList(user)
                  /\ ViewSetRetrieve(user, c) = "not_found" )
    /\ [][ \A user \in Users, c \in DOMAIN capsules :
              capsules[c].owner # user =>
                  /\ DeleteCapsule(user, c, TRUE) => UNCHANGED storeRows
                  /\ DestroyCapsule(user, c) => UNCHANGED storeRows
                  /\ \A d \in Dates : UpdateCapsule(user, c, d, 0) => UNCHANGED storeRows
       ]_vars

\* the endpoints written for the owner keep to the owner: list, detail and
\* delete of another principal's capsule omit it, answer not-found and change
\* no row
OwnerEndpointsKeepToOwner ==
    /\ [] ( \A user \in Users, c \in DOMAIN capsules :
              capsules[c].owner # user =>
                  /\ c \notin CapsuleList(user)
                  /\ CapsuleDetail(user, c) = "not_found" )
    /\ [][ \A user \in Users, c \in DOMAIN capsules :
              ( capsules[c].owner # user /\ DeleteCapsule(user, c, TRUE) ) =>
                  ( UNCHANGED storeRows /\ last'.result = "not_found" )
       ]_vars

\* bob has destroyed the capsule of alice through the viewset
DestroyedByOther ==
    /\ last.op = "destroy" /\ last.result = "deleted"
    /\ capsules = << >>
    /\ \E n \in DOMAIN notifications :
          n.user = "alice" /\ n.notification_type = CAPSULE_CREATED /\ n.capsule = NoCapsule
    /\ \A n \in DOMAIN notifications : n.user # "bob"

\* C22: a notification write that fails leaves the primary outcome as it is
\* with a write that succeeds.  Creation returns the created capsule with its
\* rows and its job; deletion returns deleted with the cascade done; a job
\* whose send succeeded marks the capsule and the recipient, writes its log,
\* returns and is not retried; a job whose send failed marks the recipient
\* failed, writes its log and requests a retry; the gate returns the capsule
\* with the recipient opened.  Only the notification is missing.
C22_NotificationFailureSwallowed ==
    [][ /\ last'.op = "create" =>
            \A email \in Emails :
              CreateCapsule("alice", email, 0, 0, "hello", << >>, TRUE, FALSE) =>
                /\ last'.result = "created"
                /\ nextCapsuleId \in DOMAIN capsules'
                /\ nextRecipientId \in DOMAIN recipients'
                /\ Len(jobs') = Len(jobs) + 1
                /\ notifications' = notifications
        /\ last'.op = "delete" =>
            \A c \in DOMAIN capsules :
              DeleteCapsule("alice", c, FALSE) =>
                /\ last'.result = "deleted"
                /\ c \notin DOMAIN capsules'
                /\ \A r \in DOMAIN recipients' : recipients'[r].capsule # c
                /\ \A k \in DOMAIN contents' : contents'[k].capsule # c
                /\ \A l \in DOMAIN deliveryLogs' : l.capsule # c
                /\ notifications' = NullifyCapsule(notifications, c)
        /\ last'.op = "deliver" /\ last'.detail = "sent" =>
            \A j \in DOMAIN jobs :
              ExecuteJob(j, <<TRUE, SentOkMessage>>, "notif_create") =>
                LET c == jobs[j].capsule_id
                    r == jobs[j].recipient_id
                IN /\ last'.result = "returned"
                   /\ jobs'[j].state = "done" /\ jobs'[j].retries = jobs[j].retries
                   /\ capsules'[c].is_delivered /\ capsules'[c].is_unlocked
                   /\ recipients'[r].received_status = SENT
                   /\ CountLogs(deliveryLogs', c, recipients[r].recipient_email, SUCCESS)
                        = CountLogs(deliveryLogs, c, recipients[r].recipient_email, SUCCESS) + 1
                   /\ notifications' = notifications
        /\ last'.op = "deliver" /\ last'.detail = "send_failed" =>
            \A j \in DOMAIN jobs :
              ExecuteJob(j, <<FALSE, SendErrorMessage>>, "notif_create") =>
                LET c == jobs[j].capsule_id
                    r == jobs[j].recipient_id
                IN /\ last'.result = "retry_requested"
                   /\ jobs'[j] = RetryOrAbandon(jobs[j])
                   /\ recipients'[r].received_status = FAILED
                   /\ CountLogs(deliveryLogs', c, recipients[r].recipient_email, FAILURE)
                        = CountLogs(deliveryLogs, c, recipients[r].recipient_email, FAILURE) + 1
                   /\ capsules' = capsules
                   /\ notifications' = notifications
        /\ last'.op = "resolve" /\ last'.detail = "opened" =>
            \A value \in Presentable(MaxCapsules) :
              ResolveToken(TRUE, value, FALSE) =>
                /\ last'.result = "capsule"
                /\ recipients'[last'.recipient].received_status = OPENED
                /\ notifications' = notifications
    ]_vars

\* every notification write has failed: the capsule was created, delivered
\* and opened, and the owner has no notification
C22_Witness ==
    /\ last.op = "resolve" /\ last.detail = "opened"
    /\ notifications = EmptyBag
    /\ \E c \in DOMAIN capsules : capsules[c].is_delivered
    /\ \E j \in DOMAIN jobs : jobs[j].state = "done" /\ jobs[j].retries = 0
    /\ BagCardinality(deliveryLogs) = 1

\* the successful sends to a recipient of a capsule
SuccessfulSends(c, email) ==
    CountIn(outbox, { e \in DOMAIN outbox :
                        e.capsule_id = c /\ e.recipient_email = email /\ e.success })

\* C23: once the sender has reported success in an execution, the execution
\* returns and requests no retry whichever later write fails, and no second
\* email is sent for that capsule and recipient.
C23_SuccessIsFinal ==
    /\ [][ ( last'.op = "deliver" /\ last'.detail = "sent" ) =>
              last'.result = "returned" ]_vars
    /\ [] ( \A c \in 1..MaxCapsules, email \in Emails : SuccessfulSends(c, email) <= 1 )

\* the capsule flag write failed after a successful send, the job was retried
\* and the recipient has been sent the email twice
SentTwice ==
    /\ last.op = "deliver" /\ last.detail = "sent"
    /\ \E c \in 1..MaxCapsules, email \in Emails : SuccessfulSends(c, email) = 2
    /\ \E j \in DOMAIN jobs : jobs[j].retries = 1

\* with a store that does not fail, an execution whose send succeeded returns
\* and no second email is sent (no execution is repeated by the backbone)
SuccessIsFinalWithoutFaults ==
    /\ [][ ( last'.op = "deliver" /\ last'.detail = "sent" ) =>
              last'.result = "returned" ]_vars
    /\ [] ( \A c \in 1..MaxStoreCapsules, email \in Emails : SuccessfulSends(c, email) <= 1 )

\* the CAPSULE_OPENED notifications about a capsule
OpenedNotifications(c) ==
    CountIn(notifications, { n \in DOMAIN notifications :
                               n.capsule = c /\ n.notification_type = CAPSULE_OPENED })

\* C24: when two requests resolve the token of a recipient at the same time,
\* one of them performs the transition to opened and the other finds the
\* recipient opened: a request reports the transition only if the stored
\* status was not opened when it wrote, and one CAPSULE_OPENED notification
\* is created for the capsule.
C24_AtomicOpen ==
    /\ [][ ( last'.op = "resolve" /\ last'.detail = "opened" ) =>
              recipients[last'.recipient].received_status # OPENED ]_vars
    /\ [] ( \A c \in DOMAIN capsules : OpenedNotifications(c) <= 1 )

\* both requests have read the status sent before either wrote: the second
\* one has written opened over opened and the owner has two notifications
OpenedTwice ==
    /\ last.op = "resolve" /\ last.detail = "opened"
    /\ inflight = << >>
    /\ recipients[last.recipient].received_status = OPENED
    /\ OpenedNotifications(last.capsule) = 2

\* the logs a step has added
AddedLogs == { l \in DOMAIN deliveryLogs' :
                 CopiesIn(l, deliveryLogs') > CopiesIn(l, deliveryLogs) }

\* C25: an execution in which the sender returned a result appends exactly one
\* DeliveryLog, for the capsule and the recipient of the call and with the
\* status of the result; an execution stopped by the idempotency guard or by
\* a missing row appends none; every step other than the deletion of the
\* capsule keeps every log as it is, and every step other than an execution
\* leaves the logs unchanged or, deleting, removes those of the capsule only.
C25_LogsAppendOnly ==
    [][ /\ \A e \in NewCalls :
              /\ BagCardinality(deliveryLogs') = BagCardinality(deliveryLogs) + 1
              /\ \A l \in AddedLogs :
                    /\ l.capsule = e.capsule_id
                    /\ l.recipient_email = e.recipient_email
                    /\ l.status = (IF e.success THEN SUCCESS ELSE FAILURE)
        /\ ( last'.op = "deliver" /\ NewCalls = {} ) =>
              ( deliveryLogs' = deliveryLogs
                /\ last'.detail \in {"capsule_not_found", "recipient_not_found",
                                     "already_delivered"} )
        /\ last'.op = "deliver" => Cardinality(NewCalls) <= 1
        /\ last'.op # "delete" => deliveryLogs \sqsubseteq deliveryLogs'
        /\ last'.op \notin {"deliver", "delete"} => deliveryLogs' = deliveryLogs
        /\ last'.op = "delete" =>
              \A l \in DOMAIN deliveryLogs :
                  l.capsule # last'.capsule => CopiesIn(l, deliveryLogs') = CopiesIn(l, deliveryLogs)
    ]_vars

\* a failed send and then a successful one have each appended their log, and
\* an execution stopped by the guard has appended none
C25_Witness ==
    /\ last.op = "deliver" /\ last.detail = "already_delivered"
    /\ BagCardinality(deliveryLogs) = 2
    /\ \E l \in DOMAIN deliveryLogs : l.status = SUCCESS
    /\ \E l \in DOMAIN deliveryLogs : l.status = FAILURE

\* the rows of a table that satisfy Test
RowsWhere(table, Test(_)) == [ x \in { y \in DOMAIN table : Test(y) } |-> table[x] ]

\* the read notifications: whose they are, of what type, and when read
ReadRows(ns) ==
    LET IsRead(n) == n.is_read
        Shown(n) == [user |-> n.user, notification_type |-> n.notification_type,
                     read_at |-> n.read_at]
    IN BagOfAll(Shown, RowsWhere(ns, IsRead))

\* the notifications of everybody but user
OthersOf(ns, user) ==
    LET NotOf(n) == n.user # user
    IN RowsWhere(ns, NotOf)

\* C26: a notification is read exactly when it has a read_at; a read
\* notification stays read with the read_at it has; only mark-read and
\* mark-all-read change what is read; mark-read by the owner of an unread
\* notification marks that one row with read_at = now, and for a notification
\* that is read already or belongs to another principal it changes nothing;
\* mark-all-read marks the unread rows of the requesting principal and leaves
\* the rows of every other principal as they are.
C26_ReadForwardOnly ==
    /\ [] ( \A n \in DOMAIN notifications : n.is_read <=> n.read_at # NoInstant )
    /\ [][ /\ ReadRows(notifications) \sqsubseteq ReadRows(notifications')
           /\ last'.op \notin {"mark_read", "mark_all_read"} =>
                 ReadRows(notifications') = ReadRows(notifications)
           /\ last'.op = "mark_read" =>
                 \A user \in Users, n \in DOMAIN notifications :
                   MarkRead(user, n) =>
                     IF n.user = user /\ ~n.is_read
                     THEN notifications' =
                            ReplaceOne(notifications, n,
                                       [n EXCEPT !.is_read = TRUE, !.read_at = now])
                     ELSE notifications' = notifications
           /\ last'.op = "mark_all_read" =>
                 \A user \in Users :
                   MarkAllRead(user) =>
                     /\ OthersOf(notifications', user) = OthersOf(notifications, user)
                     /\ BagCardinality(notifications') = BagCardinality(notifications)
                     /\ \A m \in DOMAIN notifications' : m.user = user => m.is_read
       ]_vars

\* alice marks again, at a later instant, a notification that she has read,
\* while bob has an unread one
C26_Witness ==
    /\ last.op = "mark_read" /\ last.detail = "already_read"
    /\ \E n \in DOMAIN notifications :
          n.user = "alice" /\ n.is_read /\ n.read_at < now
    /\ \E n \in DOMAIN notifications : n.user = "bob" /\ ~n.is_read
    /\ \A n \in DOMAIN notifications : n.user = "alice" => n.is_read

\* what a content row carries (a text_content of "" is the column without a
\* text, a file of NoFile the column without a file)
HasText(row) == row.text_content # ""
HasFile(row) == row.file # NoFile

\* C27: every content row in every reachable state carries a text or a file;
\* the rows a creation adds carry exactly one of the two, a text row the text
\* and no file, a row of any other type the file and no text; and a request
\* whose text is blank adds no text row.
C27_TextOrFile ==
    /\ [] ( \A k \in DOMAIN contents : HasText(contents[k]) \/ HasFile(contents[k]) )
    /\ [][ last'.op = "create" =>
            /\ \A k \in Added(contents, contents') :
                  /\ HasText(contents'[k]) # HasFile(contents'[k])
                  /\ contents'[k].content_type = TEXT <=> HasText(contents'[k])
            /\ \A owner \in Users, email \in Emails, files \in UploadInputs :
                  CreateCapsule(owner, email, 0, 0, "", files, TRUE, TRUE) =>
                    /\ Cardinality(Added(contents, contents')) = Len(files)
                    /\ \A k \in Added(contents, contents') :
                          contents'[k].content_type # TEXT
       ]_vars

\* a request with a blank text and one file has added the file row alone,
\* next to a capsule that has a text row
C27_Witness ==
    /\ last.op = "create" /\ last.capsule = 2
    /\ \E k \in DOMAIN contents : contents[k].capsule = 1 /\ HasText(contents[k])
    /\ Cardinality({ k \in DOMAIN contents : contents[k].capsule = 2 }) = 1
    /\ \A k \in DOMAIN contents :
          contents[k].capsule = 2 => ( HasFile(contents[k]) /\ ~HasText(contents[k]) )

\* C28: a creation request in which the write of a content row or of the
\* recipient row fails persists nothing: no capsule, content or recipient row
\* of the request remains, and no job is submitted.
C28_AllOrNothing ==
    [][ ( last'.op = "create" /\ last'.result = "error" ) =>
          /\ capsules' = capsules
          /\ contents' = contents
          /\ recipients' = recipients
          /\ jobs' = jobs
    ]_vars

\* a failed creation submits no job, writes no recipient and no notification
FailedCreationSchedulesNothing ==
    [][ ( last'.op = "create" /\ last'.result = "error" ) =>
          /\ jobs' = jobs
          /\ recipients' = recipients
          /\ notifications' = notifications
    ]_vars

\* the recipient write has failed: the capsule and its text row and file row
\* are stored, and the capsule has no recipient and no job
CapsuleWithoutRecipient ==
    /\ last.op = "create" /\ last.result = "error" /\ last.detail = "recipient_failed"
    /\ last.capsule \in DOMAIN capsules
    /\ Cardinality({ k \in DOMAIN contents : contents[k].capsule = last.capsule }) = 2
    /\ \A r \in DOMAIN recipients : recipients[r].capsule # last.capsule
    /\ \A j \in DOMAIN jobs : jobs[j].capsule_id # last.capsule

\* C30: no stored file belongs to a content row that no longer exists: when a
\* content row holding a file is deleted, directly or by the cascade from its
\* capsule, its file is released from the storage.
C30_NoOrphanBlob ==
    blobs \subseteq DOMAIN contents

\* a direct deletion whose storage call succeeds releases the file of the row
DirectDeletionReleases ==
    [][ ( last'.op = "delete_content" /\ last'.detail = "released" ) =>
          \E k \in DOMAIN contents :
              /\ k \notin DOMAIN contents'
              /\ k \in blobs /\ k \notin blobs'
              /\ blobs' = blobs \ {k}
    ]_vars

\* the owner has deleted a capsule with two files: no content row is left and
\* both files are still in the storage
BlobsLeftByCascade ==
    /\ last.op = "delete" /\ last.result = "deleted"
    /\ contents = << >>
    /\ Cardinality(blobs) = 2

\* the tokens that were issued and that no recipient holds any more
TokensOfDeleted == issuedTokens \ HeldTokens(recipients)

\* C29: a deletion by the owner removes the capsule with all of its content,
\* recipient and log rows and leaves the rows of other capsules alone; the
\* notifications about the capsule are kept with their capsule reference set
\* to null, none is removed; and from then on a token that belonged to the
\* capsule resolves to not-found.
C29_OwnerDeleteCascades ==
    /\ [][ ( last'.op = "delete" /\ last'.result = "deleted" ) =>
            LET c == last'.capsule
            IN /\ capsules[c].owner \in Users
               /\ c \notin DOMAIN capsules'
               /\ \A k \in DOMAIN contents' : contents'[k].capsule # c
               /\ \A r \in DOMAIN recipients' : recipients'[r].capsule # c
               /\ \A l \in DOMAIN deliveryLogs' : l.capsule # c
               /\ \A x \in DOMAIN capsules : x # c => ( x \in DOMAIN capsules' /\ capsules'[x] = capsules[x] )
               /\ \A k \in DOMAIN contents :
                     contents[k].capsule # c => ( k \in DOMAIN contents' /\ contents'[k] = contents[k] )
               /\ \A r \in DOMAIN recipients :
                     recipients[r].capsule # c => ( r \in DOMAIN recipients' /\ recipients'[r] = recipients[r] )
               /\ \A l \in DOMAIN deliveryLogs :
                     l.capsule # c => CopiesIn(l, deliveryLogs') = CopiesIn(l, deliveryLogs)
               /\ NullifyCapsule(notifications, c) \sqsubseteq notifications'
               /\ \A n \in DOMAIN notifications' : n.capsule # c
               /\ \A r \in DOMAIN recipients :
                     recipients[r].capsule = c =>
                         recipients[r].access_token \notin HeldTokens(recipients')
       ]_vars
    /\ [][ ( last'.op = "resolve" /\ AsVersion4(last'.token) \in TokensOfDeleted ) =>
              ( last'.result = "not_found" /\ UNCHANGED << recipients, notifications >> )
       ]_vars
    /\ [] ( \A r \in DOMAIN recipients : recipients[r].capsule \in DOMAIN capsules )

\* the token of a delivered and deleted capsule has just been refused; the
\* owner still has the notifications about the capsule, without the reference
C29_Witness ==
    /\ last.op = "resolve" /\ last.result = "not_found"
    /\ AsVersion4(last.token) \in TokensOfDeleted
    /\ capsules = << >> /\ recipients = << >> /\ contents = << >>
    /\ deliveryLogs = EmptyBag
    /\ \E n \in DOMAIN notifications :
          n.notification_type = DELIVERY_SUCCESS /\ n.capsule = NoCapsule
    /\ \E n \in DOMAIN notifications :
          n.notification_type = CAPSULE_CREATED /\ n.capsule = NoCapsule

\* C31: the guard is a plain read.  Every execution of the delivery task that
\* has passed the guard on the rows it read goes on to call the email sender
\* for its capsule and recipient, whatever another execution has committed
\* in between, and a call that succeeds appends a success log: two
\* executions that both passed the guard send two emails and leave two
\* success logs.
C31_BothPassBothSend ==
    [][ \A w \in DOMAIN running :
          ( /\ w \notin DOMAIN running'
            /\ running[w].capsule \in DOMAIN capsules
            /\ running[w].recipient \in DOMAIN recipients ) =>
          LET c == running[w].capsule
              email == running[w].recipient_email
          IN /\ BagCardinality(outbox') = BagCardinality(outbox) + 1
             /\ \A e \in NewCalls :
                   /\ e.capsule_id = c /\ e.recipient_email = email
                   /\ e.success =>
                        CountLogs(deliveryLogs', c, email, SUCCESS)
                            = CountLogs(deliveryLogs, c, email, SUCCESS) + 1 ]_vars

\* two executions of the first message of a delivery job, neither a retry,
\* have both sent the email successfully: two calls of the sender and two
\* success logs for one capsule and recipient
C31_Witness ==
    /\ last.op = "deliver" /\ last.detail = "sent"
    /\ running = << >>
    /\ \A j \in DOMAIN jobs : jobs[j].retries = 0
    /\ \E r \in DOMAIN recipients :
          /\ recipients[r].received_status = SENT
          /\ SuccessfulSends(recipients[r].capsule, recipients[r].recipient_email) = 2
          /\ CountLogs(deliveryLogs, recipients[r].capsule,
                       recipients[r].recipient_email, SUCCESS) = 2

\* the pair of a delivery job has been sent the email successfully before
DeliveredBefore(j) ==
    /\ jobs[j].recipient_id \in DOMAIN recipients
    /\ SuccessfulSends(jobs[j].capsule_id,
                       recipients[jobs[j].recipient_id].recipient_email) >= 1

\* C32: executions of the delivery job that do not overlap, and token
\* resolutions between them: once an execution has delivered the capsule to
\* the recipient, a later execution of the job for that pair calls the sender
\* no more and changes no row, also after the recipient has opened the
\* capsule; the sender succeeds at most once for the pair.
C32_DeliveredOnce ==
    [][ \A j \in DOMAIN jobs :
          ( last'.op = "deliver" /\ last'.job = j /\ DeliveredBefore(j) ) =>
              /\ outbox' = outbox
              /\ UNCHANGED << capsules, recipients, deliveryLogs, notifications >> ]_vars

\* the same for the executions that find the recipient in the status sent
DeliveredOnceWhileSent ==
    [][ \A j \in DOMAIN jobs :
          ( /\ last'.op = "deliver" /\ last'.job = j /\ DeliveredBefore(j)
            /\ recipients[jobs[j].recipient_id].received_status = SENT ) =>
              /\ outbox' = outbox
              /\ UNCHANGED << capsules, recipients, deliveryLogs, notifications >> ]_vars

\* the message of a delivered and opened capsule was executed again: the
\* recipient has the email twice and is back in the status sent
ResentAfterOpened ==
    /\ last.op = "deliver" /\ last.detail = "sent"
    /\ last.recipient \in DOMAIN recipients
    /\ recipients[last.recipient].received_status = SENT
    /\ SuccessfulSends(last.capsule, recipients[last.recipient].recipient_email) = 2
    /\ CountNotifications(notifications, capsules[last.capsule].owner, last.capsule,
                          CAPSULE_OPENED) = 1

\* the message of a job is finished: the task has returned, or its retries
\* are used up
Terminated(j) ==
    j \in DOMAIN jobs /\ jobs[j].state \in {"done", "abandoned"}

\* the sender has succeeded for the pair of job j
SenderSucceeded(j) ==
    \E e \in DOMAIN outbox : e.job = j /\ e.success

\* C33: under a fair backbone and without deletion, every scheduled delivery
\* job terminates; a job whose task returns leaves the capsule delivered and
\* the recipient sent, a job is abandoned only when all max_retries + 1
\* attempts have failed, and a job whose sender has succeeded in any attempt
\* has the capsule delivered.
C33_JobsTerminate ==
    /\ \A j \in 1..MaxStoreCapsules : (j \in DOMAIN jobs) ~> Terminated(j)
    /\ [][ \A j \in DOMAIN jobs :
             ( jobs[j].state = "queued" /\ jobs'[j].state = "done" ) =>
                 /\ capsules'[jobs[j].capsule_id].is_delivered
                 /\ recipients'[jobs[j].recipient_id].received_status = SENT ]_vars
    /\ [][ \A j \in DOMAIN jobs :
             ( jobs[j].state = "queued" /\ jobs'[j].state = "abandoned" ) =>
                 /\ jobs[j].retries = max_retries
                 /\ ~SenderSucceeded(j)'
                 /\ CountIn(outbox', { e \in DOMAIN outbox' : e.job = j }) = max_retries + 1 ]_vars
    /\ [] ( \A j \in DOMAIN jobs :
              SenderSucceeded(j) => /\ capsules[jobs[j].capsule_id].is_delivered
                                    /\ jobs[j].state = "done" )

\* a job delivered by its last attempt after three failures, and another
\* abandoned after four
C33_Witness ==
    /\ \E j \in DOMAIN jobs :
          /\ jobs[j].state = "done" /\ jobs[j].retries = max_retries
          /\ capsules[jobs[j].capsule_id].is_delivered
    /\ \E j \in DOMAIN jobs :
          /\ jobs[j].state = "abandoned"
          /\ ~capsules[jobs[j].capsule_id].is_delivered

\* C34: whenever the delivery job calls the email sender, the recipient row
\* holds a token that is not null (issued by uuid4 and saved by the job when
\* the row had none), the call carries that token, and the link of the email
\* is <frontend base>/view-capsule/<that token>/ with no segment that is a
\* primary key.
C34_LinkCarriesToken ==
    [][ \A e \in NewCalls :
          /\ last'.op = "deliver"
          /\ last'.recipient \in DOMAIN recipients'
          /\ LET stored == recipients'[last'.recipient].access_token
                 link == CapsuleLink(e.capsule_id, e.access_token)
             IN /\ stored # NoToken
                /\ stored \in Uuid4Values
                /\ recipients[last'.recipient].access_token \in {NoToken, stored}
                /\ e.access_token = stored
                /\ link = << FRONTEND_BASE_URL, "view-capsule", UuidText(stored) >>
                /\ link[Len(link)].form # "decimal" ]_vars

\* executions that do not overlap: the recipient of a capsule from before the
\* token column, which had no token, has been sent the email with the token
\* the job issued and saved
LegacyRecipientSentToken ==
    /\ last.op = "deliver" /\ last.recipient = 1
    /\ \A n \in DOMAIN notifications :
          ~(n.notification_type = CAPSULE_CREATED /\ n.capsule = 1)
    /\ 1 \in DOMAIN recipients
    /\ recipients[1].access_token \in Uuid4Values
    /\ \E e \in DOMAIN outbox : e.capsule_id = 1 /\ e.access_token = recipients[1].access_token

\* two executions have each issued a token for a recipient that had none:
\* the recipient has been sent, successfully, a link with a token that its
\* row does not hold
LinkWithOverwrittenToken ==
    \E r \in DOMAIN recipients, e \in DOMAIN outbox :
        /\ e.capsule_id = recipients[r].capsule
        /\ e.recipient_email = recipients[r].recipient_email
        /\ e.success
        /\ e.access_token # recipients[r].access_token
        /\ RecipientsByToken(e.access_token) = {}

\* C35: with the debug override off, a recipient in the status opened belongs
\* to a capsule that is unlocked and delivered, and the sender has succeeded
\* for that capsule before: the gate opens no capsule for which no email was
\* sent successfully.
C35_OpenedOnlyAfterDelivery ==
    ~DEBUG =>
      \A r \in DOMAIN recipients :
         recipients[r].received_status = OPENED =>
            /\ capsules[recipients[r].capsule].is_unlocked
            /\ capsules[recipients[r].capsule].is_delivered
            /\ \E e \in DOMAIN outbox : e.capsule_id = recipients[r].capsule /\ e.success

\* a recipient whose status write failed after the capsule flags were
\* written has opened the capsule from the status pending
C35_Witness ==
    /\ ~DEBUG
    /\ last.op = "resolve" /\ last.detail = "opened"
    /\ recipients[last.recipient].received_status = OPENED
    /\ recipients[last.recipient].sent_date = NoInstant
    /\ capsules[last.capsule].is_delivered

\* C36: for a capsule whose job was scheduled at an absolute instant, the
\* instant the gate compares with now is that instant, in every state: no
\* operation changes delivery_date or delivery_time of a capsule after its
\* creation.
C36_GateInstantIsScheduled ==
    /\ [] ( \A j \in DOMAIN jobs :
              ( jobs[j].eta # NoInstant /\ jobs[j].capsule_id \in DOMAIN capsules ) =>
                  StoredInstant(capsules[jobs[j].capsule_id]) = jobs[j].eta )
    /\ [][ \A c \in (DOMAIN capsules) \cap (DOMAIN capsules') :
             /\ capsules'[c].delivery_date = capsules[c].delivery_date
             /\ capsules'[c].delivery_time = capsules[c].delivery_time ]_vars

\* a capsule updated through the viewset by a user who does not own it: its
\* job is still queued for the instant given at creation and the gate
\* compares with an earlier one
GateInstantMovedByUpdate ==
    /\ last.op = "update"
    /\ \E j \in DOMAIN jobs :
          /\ jobs[j].state = "queued" /\ jobs[j].eta # NoInstant
          /\ jobs[j].capsule_id = last.capsule
          /\ StoredInstant(capsules[last.capsule]) < jobs[j].eta
          /\ ~IsTimeLocked(capsules[last.capsule], now)
          /\ now < jobs[j].eta

\* C37: the gate resolves a presented 128-bit value to a recipient only if
\* the value equals the stored token of that recipient in every bit, so two
\* different presented values never resolve to the same recipient.
C37_BitForBit ==
    [][ ( last'.op = "resolve" /\ last'.result = "capsule" ) =>
            recipients[last'.recipient].access_token = last'.token ]_vars

\* what the lookup of the code guarantees: the presented value equals the
\* stored token in the bits outside the version and variant fields
ResolvesUpToFixedBits ==
    [][ ( last'.op = "resolve" /\ last'.result = "capsule" ) =>
            /\ recipients[last'.recipient].access_token = AsVersion4(last'.token)
            /\ TokenBody(recipients[last'.recipient].access_token) = TokenBody(last'.token) ]_vars

\* a value that no recipient holds has been resolved to a recipient and has
\* opened the capsule
ResolvedByOtherValue ==
    /\ last.op = "resolve" /\ last.result = "capsule" /\ last.detail = "opened"
    /\ RecipientsByToken(last.token) = {}
    /\ recipients[last.recipient].access_token # last.token
    /\ recipients[last.recipient].received_status = OPENED

\* C38: the set-new-password operation, which needs no sign-in, changes the
\* password of an account only if an OTP issued by a password-reset request
\* for that email has been verified after the request and before the change.
C38_ResetNeedsVerifiedOtp ==
    [][ ( /\ last'.op = "account"
          /\ acct'.op = "set_new_password" /\ acct'.result = "changed" ) =>
            acct.verified[acct'.email] ]_vars

\* what the operation requires instead: that the account exists and the two
\* passwords are equal
SetNewPasswordNeedsOnlyEmail ==
    [][ \A e \in AccountEmails, p \in Passwords :
          ( PasswordResetSetNew(e, p, p) /\ e \in DOMAIN users ) =>
              /\ acct'.result = "changed"
              /\ users'[e].password = p ]_vars

\* the password of an account was set by the operation although no reset was
\* requested for it: the account still holds the OTP of its registration
\* when the operation runs, and was never activated
PasswordSetWithoutOtp ==
    /\ acct.op = "set_new_password" /\ acct.result = "changed"
    /\ ~users[acct.email].is_active
    /\ \A e \in AccountEmails : ~acct.verified[e]
    /\ now = 0

\* a step of one of the two operations that verify an OTP, for an account
\* and a code
OtpOperation(email, code) ==
    /\ last'.op = "account"
    /\ acct'.op \in {"verify_otp", "verify_account"}
    /\ acct'.email = email
    /\ acct'.code = code

====
